---------------------------- MODULE Spec2Model ----------------------------
(***************************************************************************)
(* The spaced-repetition scheduling engine of FlashCard-Maker              *)
(* (src/src/core/spaced_repetition.py) as a state machine, with the        *)
(* Flashcard and FlashcardSet objects of src/src/core/models.py.           *)
(*                                                                         *)
(* Representation choices:                                                 *)
(*  - ease_factor is a Python float that only ever moves by 0.2, 0.15,     *)
(*    0.1 and 0.02 between 1.3 and 5.0; it is kept in hundredths (250 is   *)
(*    2.5).  int(x) of a positive float is the floor, so                   *)
(*    int(interval * ease_factor) is (interval * ease) \div 100.           *)
(*    The float product can fall just below an exact integer (90 * 2.3 is  *)
(*    206.99999999999997 after thirteen reviews), so where the exact       *)
(*    product is an integer the truncation yields it or one less.          *)
(*  - a datetime is a record [day, minute, tz]: days since the day the     *)
(*    program was started, minute of that day, tz "UTC" or "naive".        *)
(*    Python's datetime ends with year 9999: adding a timedelta that       *)
(*    leaves the range raises OverflowError.                               *)
(*  - an Optional value is <<>> (None) or <<v>>.                           *)
(*  - the clock is the variable now; every datetime.now() of a handler is  *)
(*    a separate read that may see a later minute.                         *)
(*  - a call that raises leaves the mutations it made before the raise;    *)
(*    raised names the exception ("none" when the call returned).          *)
(***************************************************************************)
EXTENDS Integers, Sequences, FiniteSets, TLC

VARIABLES
    review_data,  \* SpacedRepetitionEngine.review_data: card id -> ReviewData
    now,          \* the wall clock: what datetime.now(timezone.utc) returns
    call,         \* the call that produced this state: its name and arguments
    due_cards,    \* the list the last get_due_cards call returned
    stats,        \* the dict the last get_study_stats call returned
    snapshot,     \* the dict the last export_data call returned (None before)
    raised,       \* the exception the last call raised, "none" if it returned
    reviewed,     \* the card ids passed to review_card of this engine so far
    loaded,       \* the card ids import_data has stored a record for
    aborted,      \* an import_data call on this engine has raised
    other,        \* review_data of a second engine, built to load a snapshot
    running,      \* the calls in progress in the threads of the host
    shared,       \* card id -> the places whose response_times is one list
    cards,        \* the Flashcard objects of models.py that exist
    flashcard_set,\* a FlashcardSet: its list of Flashcard objects, updated_at
    removed,      \* what the last remove_flashcard call returned
    studied,      \* per Flashcard object, the arguments of its study calls
    n_calls       \* number of calls made on the engine since the initial state

vars == <<review_data, now, call, due_cards, stats, snapshot, raised,
          reviewed, loaded, aborted, other, running, shared, cards,
          flashcard_set, removed, studied, n_calls>>

---------------------------------------------------------------------------
(* Bounds of the model *)

\* calls explored after an initial state: of the scheduling runs, of the
\* runs over the whole interface, of the round trips and of the runs that
\* load snapshots
MaxScheduleCalls == 4
MaxCalls == 3
MaxRoundTripCalls == 3
MaxSnapshotCalls == 3
\* and of the runs in which the clock moves during a call
MaxClockCalls == 2
\* and of the runs over Flashcard and FlashcardSet
MaxModelsCalls == 4
\* a card whose interval has passed this many days is reviewed no further
MaxInterval == 3000000

---------------------------------------------------------------------------
(* Values *)

CardIds == {"a", "b"}

\* the order in which export_data walks the mapping
CardOrder == {<<"a", "b">>}

ReviewResult == {"AGAIN", "HARD", "GOOD", "EASY"}

\* ReviewResult.value
value(result) ==
    CASE result = "AGAIN" -> 0
      [] result = "HARD"  -> 1
      [] result = "GOOD"  -> 2
      [] result = "EASY"  -> 3

None == <<>>
Some(v) == <<v>>

\* no call is in progress: the calls are made one after the other
NoThreads == [th \in {} |-> None]

MinutesPerDay == 1440

\* the last day of datetime's range (9999-12-31), counted from the day the
\* program was started (2026-11-01)
LAST_DAY == 2912138

\* the datetime d days and m minutes after the program was started
datetime(d, m) == [day |-> d, minute |-> m, tz |-> "UTC"]

\* dt + timedelta(days=days, minutes=minutes), when it is in range
plus(dt, days, minutes) ==
    [dt EXCEPT !.day    = @ + days + (dt.minute + minutes) \div MinutesPerDay,
               !.minute = (dt.minute + minutes) % MinutesPerDay]

\* dt + timedelta(...) raises OverflowError
out_of_range(dt, days, minutes) == plus(dt, days, minutes).day > LAST_DAY

\* a < b written for a <= b
lt(a, b) == a.day < b.day \/ (a.day = b.day /\ a.minute < b.minute)

\* a <= b of two datetimes with the same kind of tzinfo
le(a, b) == a.day < b.day \/ (a.day = b.day /\ a.minute <= b.minute)

\* int(a * b / c) of positive numbers, a * b not formed (it may pass 2^31)
MulDiv(a, b, c) == (a \div c) * b + ((a % c) * b) \div c

\* a * b / c is an integer
Divides(a, b, c) == ((a % c) * b) % c = 0

Max(x, y) == IF x >= y THEN x ELSE y
Min(x, y) == IF x <= y THEN x ELSE y

---------------------------------------------------------------------------
(* Class constants of SpacedRepetitionEngine *)

LEARNING_STEPS == <<1, 10, 1440>>
GRADUATING_INTERVAL == 1
EASY_INTERVAL == 4
\* 1.2 and 1.3, in tenths
HARD_INTERVAL_FACTOR == 12
EASY_INTERVAL_FACTOR == 13
\* 1.3 and 5.0, in hundredths
MIN_EASE_FACTOR == 130
MAX_EASE_FACTOR == 500
\* ReviewData.ease_factor default 2.5, in hundredths
DEFAULT_EASE_FACTOR == 250
\* response_times keeps the last 50 entries
RESPONSE_TIMES_KEPT == 50

\* ReviewData(): the dataclass defaults
NewReviewData ==
    [ ease_factor      |-> DEFAULT_EASE_FACTOR,
      interval         |-> 1,
      repetition       |-> 0,
      last_review      |-> None,
      next_review      |-> None,
      total_reviews    |-> 0,
      total_time_spent |-> 0,
      learning_step    |-> 0,
      graduated        |-> FALSE,
      response_times   |-> <<>>,
      review_history   |-> <<>> ]

\* seq[:n] for seq[-n:]
FirstN(seq, n) ==
    IF Len(seq) <= n THEN seq ELSE SubSeq(seq, 1, n)

\* seq[-n:]
LastN(seq, n) ==
    IF Len(seq) <= n THEN seq ELSE SubSeq(seq, Len(seq) - n + 1, Len(seq))

---------------------------------------------------------------------------
(* ReviewData.add_review, with the clock read at minute t *)

\* add_review that does not add the response time to total_time_spent
add_review_untimed(data, result, response_time, t) ==
    LET appended == Append(data.response_times, response_time)
    IN  [data EXCEPT
            !.review_history   = Append(@, <<t, result, response_time>>),
            !.response_times   = IF Len(appended) > RESPONSE_TIMES_KEPT
                                 THEN LastN(appended, RESPONSE_TIMES_KEPT)
                                 ELSE appended,
            !.total_reviews    = @ + 1]

\* add_review that puts the new entry at the head of review_history
add_review_prepends(data, result, response_time, t) ==
    LET appended == Append(data.response_times, response_time)
    IN  [data EXCEPT
            !.review_history   = <<<<t, result, response_time>>>> \o @,
            !.response_times   = IF Len(appended) > RESPONSE_TIMES_KEPT
                                 THEN LastN(appended, RESPONSE_TIMES_KEPT)
                                 ELSE appended,
            !.total_reviews    = @ + 1,
            !.total_time_spent = @ + response_time]

\* add_review without the cut to the last 50 response times
add_review_unbounded(data, result, response_time, t) ==
    [data EXCEPT
        !.review_history   = Append(@, <<t, result, response_time>>),
        !.response_times   = Append(@, response_time),
        !.total_reviews    = @ + 1,
        !.total_time_spent = @ + response_time]

add_review(data, result, response_time, t) ==
    LET appended == Append(data.response_times, response_time)
    IN  [data EXCEPT
            !.review_history   = Append(@, <<t, result, response_time>>),
            !.response_times   = IF Len(appended) > RESPONSE_TIMES_KEPT
                                 THEN LastN(appended, RESPONSE_TIMES_KEPT)
                                 ELSE appended,
            !.total_reviews    = @ + 1,
            !.total_time_spent = @ + response_time]

\* _process_learning_review with the graduation test written > for >=
process_learning_review_late(data, result) ==
    IF result = "AGAIN"
    THEN [data EXCEPT !.learning_step = 0]
    ELSE IF result \in {"GOOD", "EASY"}
    THEN LET step == data.learning_step + 1
         IN  IF step > Len(LEARNING_STEPS)
             THEN [data EXCEPT
                     !.learning_step = step,
                     !.graduated     = TRUE,
                     !.repetition    = 1,
                     !.interval      = IF result = "EASY"
                                       THEN EASY_INTERVAL
                                       ELSE GRADUATING_INTERVAL]
             ELSE [data EXCEPT !.learning_step = step]
    ELSE data

\* _process_learning_review with AGAIN going back one step, not to the first
process_learning_review_back_one(data, result) ==
    IF result = "AGAIN"
    THEN [data EXCEPT !.learning_step = Max(0, @ - 1)]
    ELSE IF result \in {"GOOD", "EASY"}
    THEN LET step == data.learning_step + 1
         IN  IF step >= Len(LEARNING_STEPS)
             THEN [data EXCEPT
                     !.learning_step = step,
                     !.graduated     = TRUE,
                     !.repetition    = 1,
                     !.interval      = IF result = "EASY"
                                       THEN EASY_INTERVAL
                                       ELSE GRADUATING_INTERVAL]
             ELSE [data EXCEPT !.learning_step = step]
    ELSE data

\* _process_learning_review with a card graduated by GOOD given the interval
\* GRADUATING_INTERVAL - 1
process_learning_review_zero_interval(data, result) ==
    IF result = "AGAIN"
    THEN [data EXCEPT !.learning_step = 0]
    ELSE IF result \in {"GOOD", "EASY"}
    THEN LET step == data.learning_step + 1
         IN  IF step >= Len(LEARNING_STEPS)
             THEN [data EXCEPT
                     !.learning_step = step,
                     !.graduated     = TRUE,
                     !.repetition    = 1,
                     !.interval      = IF result = "EASY"
                                       THEN EASY_INTERVAL
                                       ELSE GRADUATING_INTERVAL - 1]
             ELSE [data EXCEPT !.learning_step = step]
    ELSE data

\* _process_learning_review with HARD advancing the step as GOOD does
process_learning_review_hard_advances(data, result) ==
    IF result = "AGAIN"
    THEN [data EXCEPT !.learning_step = 0]
    ELSE LET step == data.learning_step + 1
         IN  IF step >= Len(LEARNING_STEPS)
             THEN [data EXCEPT
                     !.learning_step = step,
                     !.graduated     = TRUE,
                     !.repetition    = 1,
                     !.interval      = IF result = "EASY"
                                       THEN EASY_INTERVAL
                                       ELSE GRADUATING_INTERVAL]
             ELSE [data EXCEPT !.learning_step = step]

(* SpacedRepetitionEngine._process_learning_review *)

_process_learning_review(data, result) ==
    IF result = "AGAIN"
    THEN [data EXCEPT !.learning_step = 0]
    ELSE IF result \in {"GOOD", "EASY"}
    THEN LET step == data.learning_step + 1
         IN  IF step >= Len(LEARNING_STEPS)
             THEN [data EXCEPT
                     !.learning_step = step,
                     !.graduated     = TRUE,
                     !.repetition    = 1,
                     !.interval      = IF result = "EASY"
                                       THEN EASY_INTERVAL
                                       ELSE GRADUATING_INTERVAL]
             ELSE [data EXCEPT !.learning_step = step]
    ELSE data

\* _update_ease_factor with max written for min in the EASY branch
update_ease_factor_max(data, result) ==
    IF result = "HARD"
    THEN [data EXCEPT !.ease_factor = Max(MIN_EASE_FACTOR, @ - 15)]
    ELSE IF result = "EASY"
    THEN [data EXCEPT !.ease_factor = Max(MAX_EASE_FACTOR, @ + 10)]
    ELSE IF result = "GOOD"
    THEN [data EXCEPT !.ease_factor = Max(MIN_EASE_FACTOR, @ - 2)]
    ELSE data

(* SpacedRepetitionEngine._update_ease_factor *)

_update_ease_factor(data, result) ==
    IF result = "HARD"
    THEN [data EXCEPT !.ease_factor = Max(MIN_EASE_FACTOR, @ - 15)]
    ELSE IF result = "EASY"
    THEN [data EXCEPT !.ease_factor = Min(MAX_EASE_FACTOR, @ + 10)]
    ELSE IF result = "GOOD"
    THEN [data EXCEPT !.ease_factor = Max(MIN_EASE_FACTOR, @ - 2)]
    ELSE data

\* int(interval * factor) where factor is num / den: the floor of the exact
\* product, or (below = 1) one less where the exact product is an integer and
\* the float product fell just below it
truncated(interval, num, den, below) ==
    IF Divides(interval, num, den) /\ MulDiv(interval, num, den) > 0
    THEN MulDiv(interval, num, den) - below
    ELSE MulDiv(interval, num, den)

\* the values of below that int(interval * ease_factor [* 1.3]) can show:
\* interval * 1.2 is exact where the product is an integer; ease_factor
\* carries the error of the additions that produced it
float_errors(data, result) ==
    IF data.graduated /\ data.repetition >= 2 /\ result \in {"GOOD", "EASY"}
    THEN {0, 1}
    ELSE {0}

\* new_interval with the first two intervals given one repetition late
new_interval_late(d, result, below) ==
    IF d.repetition <= 1 THEN 1
    ELSE IF d.repetition = 2 THEN 6
    ELSE IF result = "HARD"
         THEN Max(1, truncated(d.interval, HARD_INTERVAL_FACTOR, 10, 0))
    ELSE IF result = "EASY"
         THEN truncated(d.interval, d.ease_factor * EASY_INTERVAL_FACTOR, 1000, below)
    ELSE truncated(d.interval, d.ease_factor, 100, below)

\* int(x + 0.5) for int(x)
rounded(interval, num, den) ==
    MulDiv(interval, num, den)
        + (IF 2 * (((interval % den) * num) % den) >= den THEN 1 ELSE 0)

\* new_interval with the products rounded to the nearest integer
new_interval_rounded(d, result, below) ==
    IF d.repetition = 0 THEN 1
    ELSE IF d.repetition = 1 THEN 6
    ELSE IF result = "HARD"
         THEN Max(1, rounded(d.interval, HARD_INTERVAL_FACTOR, 10))
    ELSE IF result = "EASY"
         THEN rounded(d.interval, d.ease_factor * EASY_INTERVAL_FACTOR, 1000)
    ELSE rounded(d.interval, d.ease_factor, 100)

\* new_interval with HARD leaving the interval as it is
new_interval_hard_keeps(d, result, below) ==
    IF d.repetition = 0 THEN 1
    ELSE IF d.repetition = 1 THEN 6
    ELSE IF result = "HARD"
         THEN Max(1, d.interval)
    ELSE IF result = "EASY"
         THEN truncated(d.interval, d.ease_factor * EASY_INTERVAL_FACTOR, 1000, below)
    ELSE truncated(d.interval, d.ease_factor, 100, below)

\* the interval a graduated card gets on HARD, GOOD or EASY, from the record d
\* whose ease factor _update_ease_factor has already adjusted
new_interval(d, result, below) ==
    IF d.repetition = 0 THEN 1
    ELSE IF d.repetition = 1 THEN 6
    ELSE IF result = "HARD"
         THEN Max(1, truncated(d.interval, HARD_INTERVAL_FACTOR, 10, 0))
    ELSE IF result = "EASY"
         THEN truncated(d.interval, d.ease_factor * EASY_INTERVAL_FACTOR, 1000, below)
    ELSE truncated(d.interval, d.ease_factor, 100, below)

(* SpacedRepetitionEngine._process_graduated_review *)

\* demoted with the interval left as it was
demoted_keeps_interval(data) ==
    [data EXCEPT
        !.graduated     = FALSE,
        !.learning_step = 0,
        !.repetition    = 0,
        !.ease_factor   = Max(MIN_EASE_FACTOR, @ - 20)]

\* demoted with the repetition count left as it was
demoted_keeps_repetition(data) ==
    [data EXCEPT
        !.graduated     = FALSE,
        !.learning_step = 0,
        !.interval      = 1,
        !.ease_factor   = Max(MIN_EASE_FACTOR, @ - 20)]

\* the AGAIN branch: back to the learning phase
demoted(data) ==
    [data EXCEPT
        !.graduated     = FALSE,
        !.learning_step = 0,
        !.repetition    = 0,
        !.interval      = 1,
        !.ease_factor   = Max(MIN_EASE_FACTOR, @ - 20)]

\* _process_graduated_review with the interval computed before the ease factor
\* is adjusted
process_graduated_review_old_ease(data, result, below) ==
    IF result = "AGAIN"
    THEN demoted(data)
    ELSE [_update_ease_factor(data, result) EXCEPT
            !.interval   = new_interval(data, result, below),
            !.repetition = @ + 1]

_process_graduated_review(data, result, below) ==
    IF result = "AGAIN"
    THEN demoted(data)
    ELSE LET d == _update_ease_factor(data, result)
         IN  [d EXCEPT
                !.interval   = new_interval(d, result, below),
                !.repetition = @ + 1]

(* SpacedRepetitionEngine._calculate_next_review, clock read t: the record *)
(* after it, and whether the addition raises OverflowError (the record is   *)
(* then left as it was)                                                     *)

next_review_overflows(data, t) ==
    data.graduated /\ out_of_range(t, data.interval, 0)

_calculate_next_review(data, t) ==
    IF ~data.graduated
    THEN IF data.learning_step < Len(LEARNING_STEPS)
         THEN [data EXCEPT !.next_review =
                 Some(plus(t, 0, LEARNING_STEPS[data.learning_step + 1]))]
         ELSE [data EXCEPT !.next_review = Some(plus(t, 1, 0))]
    ELSE IF out_of_range(t, data.interval, 0)
         THEN data
         ELSE [data EXCEPT !.next_review = Some(plus(t, data.interval, 0))]

(* SpacedRepetitionEngine.get_review_data: the mapping after the call *)

EmptyMap == [c \in {} |-> NewReviewData]

\* get_review_data creating the record with the least ease factor for the
\* default one
get_review_data_min_ease(rd, card_id) ==
    IF card_id \in DOMAIN rd
    THEN rd
    ELSE rd @@ (card_id :> [NewReviewData EXCEPT !.ease_factor = MIN_EASE_FACTOR])

get_review_data(rd, card_id) ==
    IF card_id \in DOMAIN rd THEN rd ELSE rd @@ (card_id :> NewReviewData)

(* SpacedRepetitionEngine.review_card: the record of card_id after the call, *)
(* its three clock reads being t1 <= t2 <= t3                                *)

processed_record(data, result, response_time, t1, t2, below) ==
    LET d1 == add_review(data, result, response_time, t1)
        d2 == [d1 EXCEPT !.last_review = Some(t2)]
    IN  IF ~d2.graduated
        THEN _process_learning_review(d2, result)
        ELSE _process_graduated_review(d2, result, below)

\* review_card stamping last_review on every record of the mapping
review_card_stamps_all(rd, card_id, result, response_time, t1, t2, t3, below) ==
    LET m == get_review_data(rd, card_id)
    IN  [c \in DOMAIN m |->
            IF c = card_id
            THEN _calculate_next_review(
                    processed_record(m[c], result, response_time, t1, t2, below), t3)
            ELSE [m[c] EXCEPT !.last_review = Some(t2)]]

\* review_card computing the next review from its first clock read
review_card_first_read(rd, card_id, result, response_time, t1, t2, t3, below) ==
    LET m == get_review_data(rd, card_id)
    IN  [m EXCEPT ![card_id] = _calculate_next_review(
            processed_record(m[card_id], result, response_time, t1, t2, below), t1)]

review_card(rd, card_id, result, response_time, t1, t2, t3, below) ==
    LET m == get_review_data(rd, card_id)
    IN  [m EXCEPT ![card_id] = _calculate_next_review(
            processed_record(m[card_id], result, response_time, t1, t2, below), t3)]

\* review_card raises OverflowError (from _calculate_next_review)
review_card_raises(rd, card_id, result, response_time, t1, t2, t3, below) ==
    LET m == get_review_data(rd, card_id)
    IN  next_review_overflows(
            processed_record(m[card_id], result, response_time, t1, t2, below), t3)

(* SpacedRepetitionEngine.get_due_cards(card_ids), the clock read being t:  *)
(* the walk over card_ids[1..k].  It yields the mapping (get_review_data    *)
(* creates the records it misses), the list collected and the exception     *)
(* that ended it: comparing a naive datetime with the aware t is a          *)
(* TypeError.                                                               *)

\* the walk that leaves out the cards never reviewed
RECURSIVE due_walk_skips_new(_, _, _, _)
due_walk_skips_new(rd, card_ids, k, t) ==
    IF k = 0
    THEN [rd |-> rd, due |-> <<>>, raised |-> "none"]
    ELSE LET w    == due_walk_skips_new(rd, card_ids, k - 1, t)
             m    == get_review_data(w.rd, card_ids[k])
             data == m[card_ids[k]]
         IN  IF w.raised # "none" THEN w
             ELSE IF data.next_review = None
             THEN [w EXCEPT !.rd = m]
             ELSE IF data.next_review[1].tz # t.tz
             THEN [w EXCEPT !.rd = m, !.raised = "TypeError"]
             ELSE IF le(data.next_review[1], t)
             THEN [w EXCEPT !.rd = m, !.due = Append(@, card_ids[k])]
             ELSE [w EXCEPT !.rd = m]

RECURSIVE due_walk(_, _, _, _)
due_walk(rd, card_ids, k, t) ==
    IF k = 0
    THEN [rd |-> rd, due |-> <<>>, raised |-> "none"]
    ELSE LET w    == due_walk(rd, card_ids, k - 1, t)
             m    == get_review_data(w.rd, card_ids[k])
             data == m[card_ids[k]]
         IN  IF w.raised # "none" THEN w
             ELSE IF data.next_review = None
             THEN [w EXCEPT !.rd = m, !.due = Append(@, card_ids[k])]
             ELSE IF data.next_review[1].tz # t.tz
             THEN [w EXCEPT !.rd = m, !.raised = "TypeError"]
             ELSE IF le(data.next_review[1], t)
             THEN [w EXCEPT !.rd = m, !.due = Append(@, card_ids[k])]
             ELSE [w EXCEPT !.rd = m]

get_due_cards(rd, card_ids, t) == due_walk(rd, card_ids, Len(card_ids), t)

---------------------------------------------------------------------------
(* SpacedRepetitionEngine.get_study_stats *)

RECURSIVE Gcd(_, _)
Gcd(x, y) == IF y = 0 THEN x ELSE Gcd(y, x % y)

\* the float n / d, as the fraction in lowest terms
Ratio(n, d) == IF n = 0 THEN <<0, 1>> ELSE <<n \div Gcd(n, d), d \div Gcd(n, d)>>

\* sum(1 for _, result, _ in history if result in [GOOD, EASY])
successful(history) ==
    Len(SelectSeq(history, LAMBDA e : e[2] \in {"GOOD", "EASY"}))

stats_of_none ==
    [ total_cards |-> 0, new_cards |-> 0, learning_cards |-> 0, due_cards |-> 0,
      total_reviews |-> 0, average_ease |-> Ratio(0, 1),
      average_interval |-> Ratio(0, 1), success_rate |-> Ratio(0, 1),
      total_study_time |-> 0 ]

\* the loop counting as learning every card that is not graduated, the new
\* ones too
RECURSIVE stats_walk_learning_all(_, _, _, _)
stats_walk_learning_all(rd, card_ids, k, t) ==
    IF k = 0
    THEN [ rd |-> rd, raised |-> "none", new_cards |-> 0, learning_cards |-> 0,
           due_cards |-> 0, total_reviews |-> 0, total_ease |-> 0,
           total_interval |-> 0, graduated_count |-> 0, total_study_time |-> 0,
           successful_reviews |-> 0 ]
    ELSE LET w    == stats_walk_learning_all(rd, card_ids, k - 1, t)
             m    == get_review_data(w.rd, card_ids[k])
             data == m[card_ids[k]]
             kind == IF data.next_review = None THEN "new"
                     ELSE IF ~data.graduated THEN "learning"
                     ELSE IF data.next_review[1].tz # t.tz THEN "TypeError"
                     ELSE IF le(data.next_review[1], t) THEN "due"
                     ELSE "later"
         IN  IF w.raised # "none" THEN w
             ELSE IF kind = "TypeError"
             THEN [w EXCEPT !.rd = m, !.raised = "TypeError"]
             ELSE [w EXCEPT
                     !.rd = m,
                     !.new_cards = @ + (IF kind = "new" THEN 1 ELSE 0),
                     !.learning_cards = @ + (IF ~data.graduated THEN 1 ELSE 0),
                     !.due_cards = @ + (IF kind = "due" THEN 1 ELSE 0),
                     !.total_reviews = @ + data.total_reviews,
                     !.total_study_time = @ + data.total_time_spent,
                     !.total_ease = @ + (IF data.graduated THEN data.ease_factor ELSE 0),
                     !.total_interval = @ + (IF data.graduated THEN data.interval ELSE 0),
                     !.graduated_count = @ + (IF data.graduated THEN 1 ELSE 0),
                     !.successful_reviews = @ + successful(data.review_history)]

\* the loop looking the records up without creating the missing ones
RECURSIVE stats_walk_pure(_, _, _, _)
stats_walk_pure(rd, card_ids, k, t) ==
    IF k = 0
    THEN [ rd |-> rd, raised |-> "none", new_cards |-> 0, learning_cards |-> 0,
           due_cards |-> 0, total_reviews |-> 0, total_ease |-> 0,
           total_interval |-> 0, graduated_count |-> 0, total_study_time |-> 0,
           successful_reviews |-> 0 ]
    ELSE LET w    == stats_walk_pure(rd, card_ids, k - 1, t)
             data == IF card_ids[k] \in DOMAIN rd
                     THEN rd[card_ids[k]] ELSE NewReviewData
             kind == IF data.next_review = None THEN "new"
                     ELSE IF ~data.graduated THEN "learning"
                     ELSE IF data.next_review[1].tz # t.tz THEN "TypeError"
                     ELSE IF le(data.next_review[1], t) THEN "due"
                     ELSE "later"
         IN  IF w.raised # "none" THEN w
             ELSE IF kind = "TypeError"
             THEN [w EXCEPT !.raised = "TypeError"]
             ELSE [w EXCEPT
                     !.new_cards = @ + (IF kind = "new" THEN 1 ELSE 0),
                     !.learning_cards = @ + (IF kind = "learning" THEN 1 ELSE 0),
                     !.due_cards = @ + (IF kind = "due" THEN 1 ELSE 0),
                     !.total_reviews = @ + data.total_reviews,
                     !.total_study_time = @ + data.total_time_spent,
                     !.total_ease = @ + (IF data.graduated THEN data.ease_factor ELSE 0),
                     !.total_interval = @ + (IF data.graduated THEN data.interval ELSE 0),
                     !.graduated_count = @ + (IF data.graduated THEN 1 ELSE 0),
                     !.successful_reviews = @ + successful(data.review_history)]

\* the loop over card_ids[1..k]: the mapping, the counters and the exception
RECURSIVE stats_walk(_, _, _, _)
stats_walk(rd, card_ids, k, t) ==
    IF k = 0
    THEN [ rd |-> rd, raised |-> "none", new_cards |-> 0, learning_cards |-> 0,
           due_cards |-> 0, total_reviews |-> 0, total_ease |-> 0,
           total_interval |-> 0, graduated_count |-> 0, total_study_time |-> 0,
           successful_reviews |-> 0 ]
    ELSE LET w    == stats_walk(rd, card_ids, k - 1, t)
             m    == get_review_data(w.rd, card_ids[k])
             data == m[card_ids[k]]
             kind == IF data.next_review = None THEN "new"
                     ELSE IF ~data.graduated THEN "learning"
                     ELSE IF data.next_review[1].tz # t.tz THEN "TypeError"
                     ELSE IF le(data.next_review[1], t) THEN "due"
                     ELSE "later"
         IN  IF w.raised # "none" THEN w
             ELSE IF kind = "TypeError"
             THEN [w EXCEPT !.rd = m, !.raised = "TypeError"]
             ELSE [w EXCEPT
                     !.rd = m,
                     !.new_cards = @ + (IF kind = "new" THEN 1 ELSE 0),
                     !.learning_cards = @ + (IF kind = "learning" THEN 1 ELSE 0),
                     !.due_cards = @ + (IF kind = "due" THEN 1 ELSE 0),
                     !.total_reviews = @ + data.total_reviews,
                     !.total_study_time = @ + data.total_time_spent,
                     !.total_ease = @ + (IF data.graduated THEN data.ease_factor ELSE 0),
                     !.total_interval = @ + (IF data.graduated THEN data.interval ELSE 0),
                     !.graduated_count = @ + (IF data.graduated THEN 1 ELSE 0),
                     !.successful_reviews = @ + successful(data.review_history)]

\* the dict returned, from the counters w of the loop, with the given values
\* for average_ease and average_interval
summary(card_ids, w, average_ease, average_interval) ==
    [ total_cards |-> Len(card_ids),
      new_cards |-> w.new_cards,
      learning_cards |-> w.learning_cards,
      due_cards |-> w.due_cards,
      total_reviews |-> w.total_reviews,
      average_ease |-> average_ease,
      average_interval |-> average_interval,
      success_rate |-> IF w.total_reviews > 0
                       THEN Ratio(w.successful_reviews, w.total_reviews)
                       ELSE Ratio(0, 1),
      total_study_time |-> w.total_study_time ]

\* get_study_stats with 0.0 for 2.5 as the average_ease of no graduated card
get_study_stats_zero_ease(rd, card_ids, t) ==
    IF card_ids = <<>>
    THEN [rd |-> rd, raised |-> "none", stats |-> stats_of_none]
    ELSE LET w == stats_walk(rd, card_ids, Len(card_ids), t)
         IN  [ rd |-> w.rd, raised |-> w.raised,
               stats |-> summary(card_ids, w,
                  IF w.graduated_count > 0
                  THEN Ratio(w.total_ease, w.graduated_count) ELSE Ratio(0, 1),
                  IF w.graduated_count > 0
                  THEN Ratio(w.total_interval, w.graduated_count) ELSE Ratio(0, 1)) ]

\* get_study_stats with the means taken over all the cards asked for
get_study_stats_mean_all(rd, card_ids, t) ==
    IF card_ids = <<>>
    THEN [rd |-> rd, raised |-> "none", stats |-> stats_of_none]
    ELSE LET w == stats_walk(rd, card_ids, Len(card_ids), t)
         IN  [ rd |-> w.rd, raised |-> w.raised,
               stats |-> summary(card_ids, w,
                  IF w.graduated_count > 0
                  THEN Ratio(w.total_ease, Len(card_ids))
                  ELSE Ratio(DEFAULT_EASE_FACTOR, 1),
                  IF w.graduated_count > 0
                  THEN Ratio(w.total_interval, Len(card_ids)) ELSE Ratio(0, 1)) ]

\* the mapping after the call, the dict returned (ease in hundredths) and
\* the exception raised
get_study_stats(rd, card_ids, t) ==
    IF card_ids = <<>>
    THEN [rd |-> rd, raised |-> "none", stats |-> stats_of_none]
    ELSE LET w == stats_walk(rd, card_ids, Len(card_ids), t)
         IN  [ rd |-> w.rd, raised |-> w.raised,
               stats |->
                 [ total_cards |-> Len(card_ids),
                   new_cards |-> w.new_cards,
                   learning_cards |-> w.learning_cards,
                   due_cards |-> w.due_cards,
                   total_reviews |-> w.total_reviews,
                   average_ease |-> IF w.graduated_count > 0
                                    THEN Ratio(w.total_ease, w.graduated_count)
                                    ELSE Ratio(DEFAULT_EASE_FACTOR, 1),
                   average_interval |-> IF w.graduated_count > 0
                                        THEN Ratio(w.total_interval, w.graduated_count)
                                        ELSE Ratio(0, 1),
                   success_rate |-> IF w.total_reviews > 0
                                    THEN Ratio(w.successful_reviews, w.total_reviews)
                                    ELSE Ratio(0, 1),
                   total_study_time |-> w.total_study_time ] ]

---------------------------------------------------------------------------
(* export_data and import_data.  A snapshot (a dict in insertion order) is  *)
(* a sequence of <<card_id, card_data>>; card_data is a record that may     *)
(* lack keys.  A timestamp string is a record: valid (fromisoformat parses  *)
(* it), empty (it is the string ''), the day and minute it names and its    *)
(* UTC offset, "" when it has none.                                         *)

\* datetime.isoformat()
isoformat(dt) ==
    [ valid |-> TRUE, empty |-> FALSE, day |-> dt.day, minute |-> dt.minute,
      offset |-> IF dt.tz = "UTC" THEN "+00:00" ELSE "" ]

\* fromisoformat dropping the UTC offset of the text
fromisoformat_naive(text) ==
    [ day |-> text.day, minute |-> text.minute, tz |-> "naive" ]

\* datetime.fromisoformat(text), for a text it parses
fromisoformat(text) ==
    [ day |-> text.day, minute |-> text.minute,
      tz |-> IF text.offset = "+00:00" THEN "UTC" ELSE "naive" ]

\* ReviewResult(result_val), for a value of the enumeration
result_of(result_val) ==
    CASE result_val = 0 -> "AGAIN"
      [] result_val = 1 -> "HARD"
      [] result_val = 2 -> "GOOD"
      [] result_val = 3 -> "EASY"

\* the ids of the mapping in the order export_data walks them
RECURSIVE ordered(_)
ordered(ids) ==
    IF ids = {} THEN <<>>
    ELSE LET first == CHOOSE c \in ids : \A o \in ids : o = c \/ <<c, o>> \in CardOrder
         IN  <<first>> \o ordered(ids \ {first})

exported_record(data) ==
    [ ease_factor      |-> data.ease_factor,
      interval         |-> data.interval,
      repetition       |-> data.repetition,
      last_review      |-> IF data.last_review = None THEN None
                           ELSE Some(isoformat(data.last_review[1])),
      next_review      |-> IF data.next_review = None THEN None
                           ELSE Some(isoformat(data.next_review[1])),
      total_reviews    |-> data.total_reviews,
      total_time_spent |-> data.total_time_spent,
      learning_step    |-> data.learning_step,
      graduated        |-> data.graduated,
      response_times   |-> data.response_times,
      review_history   |-> [i \in 1..Len(data.review_history) |->
                              << isoformat(data.review_history[i][1]),
                                 value(data.review_history[i][2]),
                                 data.review_history[i][3] >>] ]

export_data(rd) ==
    LET ids == ordered(DOMAIN rd)
    IN  [i \in 1..Len(ids) |-> <<ids[i], exported_record(rd[ids[i]])>>]

\* card_data.get(key, default)
Get(card_data, key, default) ==
    IF key \in DOMAIN card_data THEN card_data[key] ELSE default

\* card_data.get(key) is truthy: there, not None and not the empty string
Given(card_data, key) ==
    /\ key \in DOMAIN card_data
    /\ card_data[key] # None
    /\ ~card_data[key][1].empty

\* the exception that building the record of card_data raises, or "none"
import_error(card_data) ==
    LET history == Get(card_data, "review_history", <<>>)
    IN  IF Given(card_data, "last_review") /\ ~card_data.last_review[1].valid
        THEN "ValueError"
        ELSE IF Given(card_data, "next_review") /\ ~card_data.next_review[1].valid
        THEN "ValueError"
        ELSE IF \E i \in 1..Len(history) :
                    ~history[i][1].valid \/ history[i][2] \notin 0..3
        THEN "ValueError"
        ELSE "none"

\* the record import_data builds from card_data
imported_record(card_data) ==
    LET history == Get(card_data, "review_history", <<>>)
    IN  [ ease_factor      |-> Get(card_data, "ease_factor", DEFAULT_EASE_FACTOR),
          interval         |-> Get(card_data, "interval", 1),
          repetition       |-> Get(card_data, "repetition", 0),
          last_review      |-> IF Given(card_data, "last_review")
                               THEN Some(fromisoformat(card_data.last_review[1]))
                               ELSE None,
          next_review      |-> IF Given(card_data, "next_review")
                               THEN Some(fromisoformat(card_data.next_review[1]))
                               ELSE None,
          total_reviews    |-> Get(card_data, "total_reviews", 0),
          total_time_spent |-> Get(card_data, "total_time_spent", 0),
          learning_step    |-> Get(card_data, "learning_step", 0),
          graduated        |-> Get(card_data, "graduated", FALSE),
          response_times   |-> Get(card_data, "response_times", <<>>),
          review_history   |-> [i \in 1..Len(history) |->
                                  << fromisoformat(history[i][1]),
                                     result_of(history[i][2]),
                                     history[i][3] >>] ]

\* store keeping the record the engine has, if it has one
store_if_missing(rd, card_id, data) ==
    IF card_id \in DOMAIN rd THEN rd ELSE rd @@ (card_id :> data)

\* store putting the mapping aside: the record stored is the only one left
store_alone(rd, card_id, data) == (card_id :> data)

\* self.review_data[card_id] = review_data
store(rd, card_id, data) ==
    IF card_id \in DOMAIN rd
    THEN [rd EXCEPT ![card_id] = data]
    ELSE rd @@ (card_id :> data)

\* import_data(data), the loop over data[1..k]: the mapping, the exception and
\* the ids stored
RECURSIVE import_walk(_, _, _)
import_walk(rd, data, k) ==
    IF k = 0
    THEN [rd |-> rd, raised |-> "none", stored |-> {}]
    ELSE LET w == import_walk(rd, data, k - 1)
         IN  IF w.raised # "none" THEN w
             ELSE IF import_error(data[k][2]) # "none"
             THEN [w EXCEPT !.raised = import_error(data[k][2])]
             ELSE [w EXCEPT !.rd = store(@, data[k][1], imported_record(data[k][2])),
                            !.stored = @ \cup {data[k][1]}]

import_data(rd, data) == import_walk(rd, data, Len(data))

---------------------------------------------------------------------------
(* The response_times lists that are one object.  export_data puts the    *)
(* list of the record into the snapshot and import_data puts the list of  *)
(* the snapshot into the record it builds, neither copies it; add_review   *)
(* appends to the list in place and, past 50 entries, binds a new list to  *)
(* the record.  shared[c] is the set of places (the engine, the snapshot   *)
(* exported last, the second engine) where the response_times of card c is *)
(* one list, empty when no two places share it.                            *)

Places == {"engine", "snapshot", "other"}

\* every list is held in one place
NotShared == [c \in CardIds |-> {}]

\* a list held in one place is not shared
Group(places) == IF Cardinality(places) >= 2 THEN places ELSE {}

\* place now holds, for the cards ids, the list that the place from holds
Joined(sh, ids, place, from) ==
    [c \in CardIds |->
        IF c \notin ids THEN sh[c]
        ELSE IF from \in sh[c] THEN sh[c] \cup {place}
        ELSE {from, place}]

\* place now holds, for the cards ids, a list of its own (or none)
Parted(sh, ids, place) ==
    [c \in CardIds |-> IF c \in ids THEN Group(sh[c] \ {place}) ELSE sh[c]]

\* self.response_times.append(response_time) seen in the exported dict data
appended_in(data, card_id, response_time) ==
    [i \in 1..Len(data) |->
        IF data[i][1] = card_id
        THEN <<card_id, [data[i][2] EXCEPT
                           !.response_times = Append(@, response_time)]>>
        ELSE data[i]]

\* self.response_times = self.response_times[-50:] is reached by add_review
rebinds(data) == Len(data.response_times) + 1 > RESPONSE_TIMES_KEPT

---------------------------------------------------------------------------
(* models.py: Flashcard, FlashcardMetadata and FlashcardSet.  A Flashcard  *)
(* is an object; the list of a FlashcardSet holds objects, and two objects *)
(* can carry the same id.  Of a Flashcard the id, the front text and the   *)
(* metadata are kept, of a FlashcardSet the list and updated_at: study,    *)
(* add_flashcard and remove_flashcard touch no other field.                *)
(* difficulty_rating moves by 0.1 between 0.0 and 1.0 and is kept in       *)
(* tenths; accuracy, a float, is kept as the fraction it rounds.           *)

\* the Flashcard objects, and the id each was constructed with
Objects == {"x", "y", "z"}

IdOf == [o \in Objects |-> IF o = "z" THEN "2" ELSE "1"]

\* the ids remove_flashcard is called with
FlashcardIds == {"1", "2", "3"}

\* FlashcardMetadata(), constructed at t
FlashcardMetadata(t) ==
    [ created_at        |-> t,
      updated_at        |-> t,
      times_studied     |-> 0,
      correct_answers   |-> 0,
      incorrect_answers |-> 0,
      difficulty_rating |-> 5,
      last_studied      |-> None ]

\* Flashcard(id=id, front_text=front_text), constructed at t; the front
\* texts used are plain words, which sanitize_html leaves as they are
Flashcard(id, front_text, t) ==
    [ id |-> id, front_text |-> front_text, metadata |-> FlashcardMetadata(t) ]

\* FlashcardSet(), constructed at t
FlashcardSet(t) == [ flashcards |-> <<>>, updated_at |-> t ]

\* update_study_stats counting the correct answers only
update_study_stats_correct_only(metadata, correct, t1, t2) ==
    IF correct
    THEN [metadata EXCEPT
            !.times_studied     = @ + 1,
            !.last_studied      = Some(t1),
            !.updated_at        = t2,
            !.correct_answers   = @ + 1,
            !.difficulty_rating = Max(0, @ - 1)]
    ELSE [metadata EXCEPT
            !.last_studied      = Some(t1),
            !.updated_at        = t2,
            !.incorrect_answers = @ + 1,
            !.difficulty_rating = Min(10, @ + 1)]

\* FlashcardMetadata.update_study_stats(correct), its clock reads t1 <= t2
update_study_stats(metadata, correct, t1, t2) ==
    IF correct
    THEN [metadata EXCEPT
            !.times_studied     = @ + 1,
            !.last_studied      = Some(t1),
            !.updated_at        = t2,
            !.correct_answers   = @ + 1,
            !.difficulty_rating = Max(0, @ - 1)]
    ELSE [metadata EXCEPT
            !.times_studied     = @ + 1,
            !.last_studied      = Some(t1),
            !.updated_at        = t2,
            !.incorrect_answers = @ + 1,
            !.difficulty_rating = Min(10, @ + 1)]

\* FlashcardMetadata.accuracy
accuracy(metadata) ==
    IF metadata.times_studied = 0
    THEN Ratio(0, 1)
    ELSE Ratio(metadata.correct_answers * 100, metadata.times_studied)

\* Flashcard.study(correct)
study(flashcard, correct, t1, t2) ==
    [flashcard EXCEPT !.metadata = update_study_stats(@, correct, t1, t2)]

\* [fc.id for fc in self.flashcards]
ids_of(fs, cs) == {cs[fs.flashcards[i]].id : i \in 1..Len(fs.flashcards)}

\* add_flashcard without the test of the id
add_flashcard_always(fs, cs, o, t) ==
    [fs EXCEPT !.flashcards = Append(@, o), !.updated_at = t]

\* FlashcardSet.add_flashcard(flashcard), flashcard being the object o of cs
add_flashcard(fs, cs, o, t) ==
    IF cs[o].id \notin ids_of(fs, cs)
    THEN [fs EXCEPT !.flashcards = Append(@, o), !.updated_at = t]
    ELSE fs

\* del seq[i]
Del(seq, i) == SubSeq(seq, 1, i - 1) \o SubSeq(seq, i + 1, Len(seq))

\* FlashcardSet.remove_flashcard(flashcard_id): the set after the call and
\* the value returned
remove_flashcard(fs, cs, flashcard_id, t) ==
    LET found == {i \in 1..Len(fs.flashcards) :
                     cs[fs.flashcards[i]].id = flashcard_id}
        first == CHOOSE i \in found : \A j \in found : i <= j
    IN  IF found = {}
        THEN [fs |-> fs, returned |-> FALSE]
        ELSE [fs |-> [fs EXCEPT !.flashcards = Del(@, first), !.updated_at = t],
              returned |-> TRUE]

---------------------------------------------------------------------------
(* The state after construction, and after earlier use                     *)

\* n times the review <<card_id, result>>
Times(n, card_id, result) == [i \in 1..n |-> <<card_id, result>>]

\* the engine rd after the reviews calls[1..k] made from minute t0 on, one a
\* minute, the review of minute m taking m + 1 seconds
RECURSIVE Replay(_, _, _, _)
Replay(rd, calls, k, t0) ==
    IF k = 0
    THEN rd
    ELSE review_card(Replay(rd, calls, k - 1, t0), calls[k][1], calls[k][2],
                     t0 + k,
                     datetime(0, t0 + k - 1), datetime(0, t0 + k - 1),
                     datetime(0, t0 + k - 1), 0)

\* a card taken to the long intervals: graduated, six more EASY reviews, lapse
EasyRound == Times(9, "a", "EASY") \o Times(1, "a", "AGAIN")

AfterRound1 == Replay(EmptyMap, EasyRound, 10, 0)
AfterRound2 == Replay(AfterRound1, EasyRound, 10, 10)
AfterRound3 == Replay(AfterRound2, EasyRound, 10, 20)
AfterRound4 == Replay(AfterRound3, EasyRound, 10, 30)
AfterRound5 == Replay(AfterRound4, EasyRound, 10, 40)

\* The engine before the explored calls begin, and the minute it is then.
\* The first is the engine as constructed.  The others are engines after
\* review sequences of the depth at which the ease factor meets its limits
\* and the interval leaves the calendar: three GOOD; three GOOD and eight
\* HARD (ease factor 1.3); thirteen EASY (interval 1612497 days); five rounds
\* of EASY with a lapse and seven EASY (ease factor 4.9, 57 reviews).  In
\* none of these reviews does the float product of the interval meet an
\* integer.
PriorUse ==
    { <<EmptyMap, 0>>,
      <<Replay(EmptyMap, Times(3, "a", "GOOD"), 3, 0), 3>>,
      <<Replay(EmptyMap, Times(3, "a", "GOOD") \o Times(8, "a", "HARD"), 11, 0), 11>>,
      <<Replay(EmptyMap, Times(13, "a", "EASY"), 13, 0), 13>>,
      <<Replay(AfterRound5, Times(7, "a", "EASY"), 7, 50), 57>> }

\* the engine as constructed, and after three GOOD reviews of card a
FirstUse ==
    { <<EmptyMap, 0>>,
      <<Replay(EmptyMap, Times(3, "a", "GOOD"), 3, 0), 3>> }

\* the state in which the engine is prior[1] and the minute prior[2]
Begin(prior) ==
    /\ review_data = prior[1]
    /\ now = datetime(0, prior[2])
    /\ reviewed = DOMAIN prior[1]
    /\ loaded = {}
    /\ aborted = FALSE
    /\ other = None
    /\ running = NoThreads
    /\ shared = NotShared
    /\ cards = [o \in Objects |-> Flashcard(IdOf[o], o, datetime(0, prior[2]))]
    /\ flashcard_set = FlashcardSet(datetime(0, prior[2]))
    /\ removed = None
    /\ studied = [o \in Objects |-> <<>>]
    /\ call = [op |-> "__init__"]
    /\ due_cards = None
    /\ stats = None
    /\ snapshot = None
    /\ raised = "none"
    /\ n_calls = 0

Init == \E prior \in FirstUse : Begin(prior)

InitSchedule == \E prior \in PriorUse : Begin(prior)

---------------------------------------------------------------------------
(* The calls *)

\* what the calls on the engine leave alone: the objects of models.py
models == <<cards, flashcard_set, removed, studied>>

\* spaced_repetition.review_card(card_id, result, response_time); the clock
\* shows now at the first read and has moved on to t2 and t3 at the others
Review(card_id, result, response_time, t2, t3, below) ==
    /\ card_id \in DOMAIN review_data
            => review_data[card_id].interval <= MaxInterval
    /\ review_data' = review_card(review_data, card_id, result, response_time,
                                  now, t2, t3, below)
    /\ raised' = IF review_card_raises(review_data, card_id, result,
                                       response_time, now, t2, t3, below)
                 THEN "OverflowError" ELSE "none"
    /\ now' = t3
    /\ call' = [op |-> "review_card", card_id |-> card_id, result |-> result,
                response_time |-> response_time]
    /\ reviewed' = reviewed \cup {card_id}
    /\ n_calls' = n_calls + 1
    /\ snapshot' = IF {"engine", "snapshot"} \subseteq shared[card_id]
                   THEN Some(appended_in(snapshot[1], card_id, response_time))
                   ELSE snapshot
    /\ other' = IF {"engine", "other"} \subseteq shared[card_id]
                THEN Some([other[1] EXCEPT ![card_id].response_times =
                                              Append(@, response_time)])
                ELSE other
    /\ shared' = IF rebinds(get_review_data(review_data, card_id)[card_id])
                 THEN Parted(shared, {card_id}, "engine")
                 ELSE shared
    /\ UNCHANGED <<due_cards, stats, loaded, aborted, running, models>>

\* other.review_card(card_id, result, response_time): the call on the second
\* engine
ReviewOther(card_id, result, response_time, t2, t3, below) ==
    /\ other # None
    /\ card_id \in DOMAIN other[1]
            => other[1][card_id].interval <= MaxInterval
    /\ other' = Some(review_card(other[1], card_id, result, response_time,
                                 now, t2, t3, below))
    /\ raised' = IF review_card_raises(other[1], card_id, result,
                                       response_time, now, t2, t3, below)
                 THEN "OverflowError" ELSE "none"
    /\ now' = t3
    /\ call' = [op |-> "other.review_card", card_id |-> card_id,
                result |-> result, response_time |-> response_time]
    /\ n_calls' = n_calls + 1
    /\ snapshot' = IF {"other", "snapshot"} \subseteq shared[card_id]
                   THEN Some(appended_in(snapshot[1], card_id, response_time))
                   ELSE snapshot
    /\ review_data' = IF {"other", "engine"} \subseteq shared[card_id]
                      THEN [review_data EXCEPT ![card_id].response_times =
                                                  Append(@, response_time)]
                      ELSE review_data
    /\ shared' = IF rebinds(get_review_data(other[1], card_id)[card_id])
                 THEN Parted(shared, {card_id}, "other")
                 ELSE shared
    /\ UNCHANGED <<due_cards, stats, reviewed, loaded, aborted, running,
                   models>>

\* the lists of card ids the queries are made with (one names a card twice)
CardLists == {<<>>, <<"a">>, <<"b">>, <<"a", "b">>, <<"a", "a">>}

\* spaced_repetition.get_due_cards(card_ids)
GetDue(card_ids) ==
    LET r == get_due_cards(review_data, card_ids, now)
    IN  /\ review_data' = r.rd
        /\ raised' = r.raised
        /\ due_cards' = IF r.raised = "none" THEN Some(r.due) ELSE due_cards
        /\ call' = [op |-> "get_due_cards", card_ids |-> card_ids]
        /\ n_calls' = n_calls + 1
        /\ UNCHANGED <<now, stats, snapshot, reviewed, loaded, aborted,
                       other, running, shared, models>>

\* spaced_repetition.get_study_stats(card_ids)
GetStats(card_ids) ==
    LET r == get_study_stats(review_data, card_ids, now)
    IN  /\ review_data' = r.rd
        /\ raised' = r.raised
        /\ stats' = IF r.raised = "none" THEN Some(r.stats) ELSE stats
        /\ call' = [op |-> "get_study_stats", card_ids |-> card_ids]
        /\ n_calls' = n_calls + 1
        /\ UNCHANGED <<now, due_cards, snapshot, reviewed, loaded, aborted,
                       other, running, shared, models>>

\* snapshot = spaced_repetition.export_data()
Export ==
    /\ snapshot' = Some(export_data(review_data))
    /\ raised' = "none"
    /\ call' = [op |-> "export_data"]
    /\ n_calls' = n_calls + 1
    /\ shared' = Joined(Parted(shared, CardIds, "snapshot"),
                        DOMAIN review_data, "snapshot", "engine")
    /\ UNCHANGED <<review_data, now, due_cards, stats, reviewed, loaded,
                   aborted, other, running, models>>

\* Snapshots that did not come from this engine: card b as another engine or
\* an editor of the file left it, graduated with no repetition counted and
\* next due in three days (the other keys absent).
OtherSnapshots(t) ==
    { << <<"b", [ graduated   |-> TRUE,
                  repetition  |-> 0,
                  interval    |-> 3,
                  next_review |-> Some(isoformat(plus(t, 3, 0))) ]>> >> }

\* timestamp strings that are not what isoformat writes: text that
\* fromisoformat does not parse, the empty string, and the time dt written
\* without a UTC offset
Unparseable ==
    [ valid |-> FALSE, empty |-> FALSE, day |-> 0, minute |-> 0, offset |-> "" ]

EmptyText ==
    [ valid |-> FALSE, empty |-> TRUE, day |-> 0, minute |-> 0, offset |-> "" ]

WithoutOffset(dt) ==
    [ valid |-> TRUE, empty |-> FALSE, day |-> dt.day, minute |-> dt.minute,
      offset |-> "" ]

\* Snapshots as a file written or edited elsewhere may hold them, read at
\* time t: card b alone, well formed; cards a and b, well formed; card b with
\* a next_review that has no offset; card a followed by card b with an
\* unparseable next_review; card a followed by card b with the outcome code
\* 7 in its history; card a with empty strings for its timestamps; card b
\* with an ease factor of 9.0, interval 0 though graduated and a negative
\* review count; card a with a review count of 4 and a history of one entry.
FileSnapshots(t) ==
    OtherSnapshots(t) \cup
    { << <<"a", [ ease_factor    |-> 200,
                  last_review    |-> Some(isoformat(t)),
                  total_reviews  |-> 1,
                  review_history |-> << <<isoformat(t), 2, 5>> >> ]>>,
         <<"b", [ learning_step |-> 1,
                  next_review   |-> Some(isoformat(plus(t, 0, 10))) ]>> >>,
      << <<"b", [ next_review |-> Some(WithoutOffset(plus(t, 3, 0))) ]>> >>,
      << <<"a", [ ease_factor |-> 200 ]>>,
         <<"b", [ next_review |-> Some(Unparseable) ]>> >>,
      << <<"a", [ ease_factor |-> 200 ]>>,
         <<"b", [ review_history |-> << <<isoformat(t), 7, 5>> >> ]>> >>,
      << <<"a", [ last_review |-> Some(EmptyText),
                  next_review |-> Some(EmptyText) ]>> >>,
      << <<"b", [ ease_factor   |-> 900,
                  graduated     |-> TRUE,
                  interval      |-> 0,
                  total_reviews |-> 0 - 3 ]>> >>,
      << <<"a", [ total_reviews  |-> 4,
                  review_history |-> << <<isoformat(t), 2, 5>> >> ]>> >> }

\* spaced_repetition.import_data(data); from is "snapshot" where data is
\* the dict export_data returned last, "file" where it was read from a file
Import(data, from) ==
    LET r == import_data(review_data, data)
    IN  /\ review_data' = r.rd
        /\ raised' = r.raised
        /\ loaded' = loaded \cup r.stored
        /\ aborted' = (aborted \/ r.raised # "none")
        /\ call' = [op |-> "import_data", data |-> data]
        /\ n_calls' = n_calls + 1
        /\ shared' = IF from = "snapshot"
                     THEN Joined(shared, r.stored, "engine", "snapshot")
                     ELSE Parted(shared, r.stored, "engine")
        /\ UNCHANGED <<now, due_cards, stats, snapshot, reviewed, other,
                       running, models>>

\* other = SpacedRepetitionEngine(); other.import_data(snapshot): a second
\* engine is constructed and loads the snapshot exported last
Restore ==
    /\ snapshot # None
    /\ LET r == import_data(EmptyMap, snapshot[1])
       IN  /\ other' = Some(r.rd)
           /\ raised' = r.raised
    /\ call' = [op |-> "restore"]
    /\ n_calls' = n_calls + 1
    /\ shared' = Joined(Parted(shared, CardIds, "other"),
                        import_data(EmptyMap, snapshot[1]).stored,
                        "other", "snapshot")
    /\ UNCHANGED <<review_data, now, due_cards, stats, snapshot, reviewed,
                   loaded, aborted, running, models>>

\* time passes: a minute, a day
Ticks == {<<0, 1>>, <<1, 0>>}

Tick(days, minutes) ==
    /\ now' = plus(now, days, minutes)
    /\ call' = [op |-> "tick"]
    /\ raised' = "none"
    /\ n_calls' = n_calls + 1
    /\ UNCHANGED <<review_data, due_cards, stats, snapshot, reviewed, loaded,
                   aborted, other, running, shared, models>>

---------------------------------------------------------------------------
(* The engine under review calls that differ in card and outcome only, from *)
(* every prior use                                                          *)

ScheduleReview ==
    /\ n_calls < MaxScheduleCalls
    /\ \E card_id \in CardIds, result \in ReviewResult :
         \E below \in float_errors(get_review_data(review_data, card_id)[card_id], result) :
            Review(card_id, result, 5, now, now, below)

SpecSchedule == InitSchedule /\ [][ScheduleReview]_vars

(* The engine under review calls, exported and loaded into a second engine *)

RoundTripReview ==
    /\ n_calls < MaxRoundTripCalls
    /\ \E card_id \in CardIds, result \in ReviewResult :
         \E below \in float_errors(get_review_data(review_data, card_id)[card_id], result) :
            Review(card_id, result, 5, now, now, below)

RoundTripExport == n_calls < MaxRoundTripCalls /\ Export

RoundTripRestore == n_calls < MaxRoundTripCalls /\ Restore

RoundTripReviewOther ==
    /\ n_calls < MaxRoundTripCalls
    /\ other # None
    /\ \E card_id \in CardIds, result \in ReviewResult :
         \E below \in float_errors(get_review_data(other[1], card_id)[card_id], result) :
            ReviewOther(card_id, result, 5, now, now, below)

RoundTripNext ==
    \/ RoundTripReview
    \/ RoundTripExport
    \/ RoundTripRestore
    \/ RoundTripReviewOther

SpecRoundTrip == InitSchedule /\ [][RoundTripNext]_vars

(* The engine under review calls, snapshots loaded from files and queries  *)

SnapshotReview ==
    /\ n_calls < MaxSnapshotCalls
    /\ \E card_id \in CardIds, result \in ReviewResult :
         \E below \in float_errors(get_review_data(review_data, card_id)[card_id], result) :
            Review(card_id, result, 5, now, now, below)

SnapshotLoad ==
    n_calls < MaxSnapshotCalls /\ \E data \in FileSnapshots(now) : Import(data, "file")

SnapshotGetDue ==
    n_calls < MaxSnapshotCalls /\ \E card_ids \in CardLists : GetDue(card_ids)

SnapshotGetStats ==
    n_calls < MaxSnapshotCalls /\ \E card_ids \in CardLists : GetStats(card_ids)

SnapshotNext ==
    \/ SnapshotReview
    \/ SnapshotLoad
    \/ SnapshotGetDue
    \/ SnapshotGetStats

SpecSnapshot == Init /\ [][SnapshotNext]_vars

(* The engine under review calls whose three clock reads differ: the clock *)
(* moves on by a minute between the reads of a call, and by a minute or a  *)
(* day between the calls                                                   *)

\* what the clock has moved on by from one read to the next, <<days, minutes>>
Skews == {<<0, 0>>, <<0, 1>>}

ClockReview ==
    /\ n_calls < MaxClockCalls
    /\ \E card_id \in CardIds, result \in ReviewResult, s2 \in Skews, s3 \in Skews :
         \E below \in float_errors(get_review_data(review_data, card_id)[card_id], result) :
            LET t2 == plus(now, s2[1], s2[2])
                t3 == plus(t2, s3[1], s3[2])
            IN  Review(card_id, result, 5, t2, t3, below)

ClockGetDue ==
    n_calls < MaxClockCalls /\ \E card_ids \in CardLists : GetDue(card_ids)

ClockTick == n_calls < MaxClockCalls /\ \E d \in Ticks : Tick(d[1], d[2])

ClockNext ==
    \/ ClockReview
    \/ ClockGetDue
    \/ ClockTick

SpecClock == InitSchedule /\ [][ClockNext]_vars

(* Flashcards studied, added to a FlashcardSet and removed from it *)

\* what the calls on Flashcard and FlashcardSet leave alone
engine == <<review_data, due_cards, stats, snapshot, reviewed, loaded,
            aborted, other, running, shared>>

\* cards[o].study(correct)
Study(o, correct, t2) ==
    /\ cards' = [cards EXCEPT ![o] = study(@, correct, now, t2)]
    /\ studied' = [studied EXCEPT ![o] = Append(@, correct)]
    /\ now' = t2
    /\ raised' = "none"
    /\ call' = [op |-> "study", flashcard |-> o, correct |-> correct]
    /\ n_calls' = n_calls + 1
    /\ UNCHANGED <<flashcard_set, removed, engine>>

\* flashcard_set.add_flashcard(cards[o])
AddFlashcard(o) ==
    /\ flashcard_set' = add_flashcard(flashcard_set, cards, o, now)
    /\ raised' = "none"
    /\ call' = [op |-> "add_flashcard", flashcard |-> o]
    /\ n_calls' = n_calls + 1
    /\ UNCHANGED <<now, cards, removed, studied, engine>>

\* removed = flashcard_set.remove_flashcard(flashcard_id)
RemoveFlashcard(flashcard_id) ==
    LET r == remove_flashcard(flashcard_set, cards, flashcard_id, now)
    IN  /\ flashcard_set' = r.fs
        /\ removed' = Some(r.returned)
        /\ raised' = "none"
        /\ call' = [op |-> "remove_flashcard", flashcard_id |-> flashcard_id]
        /\ n_calls' = n_calls + 1
        /\ UNCHANGED <<now, cards, studied, engine>>

ModelsStudy ==
    /\ n_calls < MaxModelsCalls
    /\ \E o \in Objects, correct \in BOOLEAN, s \in Skews :
          Study(o, correct, plus(now, s[1], s[2]))

ModelsAdd == n_calls < MaxModelsCalls /\ \E o \in Objects : AddFlashcard(o)

ModelsRemove ==
    n_calls < MaxModelsCalls /\ \E id \in FlashcardIds : RemoveFlashcard(id)

ModelsTick == n_calls < MaxModelsCalls /\ \E d \in Ticks : Tick(d[1], d[2])

ModelsNext ==
    \/ ModelsStudy
    \/ ModelsAdd
    \/ ModelsRemove
    \/ ModelsTick

SpecModels == Init /\ [][ModelsNext]_vars

(* The engine under its whole interface *)

AnyReview ==
    /\ n_calls < MaxCalls
    /\ \E card_id \in CardIds, result \in ReviewResult :
         \E below \in float_errors(get_review_data(review_data, card_id)[card_id], result) :
            Review(card_id, result, 5, now, now, below)

AnyGetDue == n_calls < MaxCalls /\ \E card_ids \in CardLists : GetDue(card_ids)

AnyGetStats == n_calls < MaxCalls /\ \E card_ids \in CardLists : GetStats(card_ids)

AnyExport == n_calls < MaxCalls /\ Export

ImportExported ==
    n_calls < MaxCalls /\ snapshot # None /\ Import(snapshot[1], "snapshot")

ImportOther ==
    n_calls < MaxCalls /\ \E data \in OtherSnapshots(now) : Import(data, "file")

AnyTick == n_calls < MaxCalls /\ \E d \in Ticks : Tick(d[1], d[2])

Next ==
    \/ AnyReview
    \/ AnyGetDue
    \/ AnyGetStats
    \/ AnyExport
    \/ ImportExported
    \/ ImportOther
    \/ AnyTick

Spec == Init /\ [][Next]_vars

---------------------------------------------------------------------------
(* The read calls in the threads of a multi-threaded host.  A thread makes *)
(* one call, and the interpreter switches threads between the steps of the *)
(* loops.  running[op] is the frame of the call op in progress: the        *)
(* mapping when it began, its position in its loop, what it has collected  *)
(* and how it ended ("no" while it runs, "returned", or the exception).    *)
(* The iterator of a dict keeps the size the dict had when the iterator    *)
(* was made, and its next() raises RuntimeError (dictionary changed size   *)
(* during iteration) when the dict has another size.                       *)

\* the frame of export_data at "for card_id, data in self.review_data.items()"
export_frame(rd) ==
    [ began |-> rd, used |-> Cardinality(DOMAIN rd), ids |-> ordered(DOMAIN rd),
      pos |-> 0, exported |-> <<>>, ended |-> "no" ]

\* next() of the iterator and the body of the loop of export_data, or the
\* return after the last item
export_step(rd, f) ==
    IF Cardinality(DOMAIN rd) # f.used
    THEN [f EXCEPT !.ended = "RuntimeError"]
    ELSE IF f.pos = Len(f.ids)
    THEN [f EXCEPT !.ended = "returned"]
    ELSE [f EXCEPT
            !.pos = @ + 1,
            !.exported = Append(@, << f.ids[f.pos + 1],
                                      exported_record(rd[f.ids[f.pos + 1]]) >>)]

\* the frame of get_due_cards after it has read the clock
due_frame(rd, card_ids, t) ==
    [ began |-> rd, card_ids |-> card_ids, t |-> t, pos |-> 0, due |-> <<>>,
      ended |-> "no" ]

\* one pass of the loop of get_due_cards, or the return after the last id:
\* the mapping and the frame
due_step(rd, f) ==
    IF f.pos = Len(f.card_ids)
    THEN [rd |-> rd, frame |-> [f EXCEPT !.ended = "returned"]]
    ELSE LET w == due_walk(rd, << f.card_ids[f.pos + 1] >>, 1, f.t)
         IN  [ rd |-> w.rd,
               frame |-> [f EXCEPT
                            !.pos = @ + 1,
                            !.due = @ \o w.due,
                            !.ended = IF w.raised = "none" THEN "no"
                                      ELSE w.raised] ]

\* the counters of the loop of get_study_stats
Counters ==
    { "new_cards", "learning_cards", "due_cards", "total_reviews",
      "total_ease", "total_interval", "graduated_count", "total_study_time",
      "successful_reviews" }

\* the frame of get_study_stats after it has read the clock
stats_frame(rd, card_ids, t) ==
    [ began |-> rd, card_ids |-> card_ids, t |-> t, pos |-> 0,
      w |-> [c \in Counters |-> 0], stats |-> None, ended |-> "no" ]

\* one pass of the loop of get_study_stats, or the return (at once for no
\* ids, after the last id otherwise): the mapping and the frame
stats_step(rd, f) ==
    IF f.card_ids = <<>>
    THEN [ rd |-> rd,
           frame |-> [f EXCEPT !.stats = Some(stats_of_none),
                               !.ended = "returned"] ]
    ELSE IF f.pos = Len(f.card_ids)
    THEN [ rd |-> rd,
           frame |-> [f EXCEPT
                        !.stats = Some(summary(f.card_ids, f.w,
                            IF f.w.graduated_count > 0
                            THEN Ratio(f.w.total_ease, f.w.graduated_count)
                            ELSE Ratio(DEFAULT_EASE_FACTOR, 1),
                            IF f.w.graduated_count > 0
                            THEN Ratio(f.w.total_interval, f.w.graduated_count)
                            ELSE Ratio(0, 1))),
                        !.ended = "returned"] ]
    ELSE LET w == stats_walk(rd, << f.card_ids[f.pos + 1] >>, 1, f.t)
         IN  [ rd |-> w.rd,
               frame |-> IF w.raised # "none"
                         THEN [f EXCEPT !.pos = @ + 1, !.ended = w.raised]
                         ELSE [f EXCEPT
                                 !.pos = @ + 1,
                                 !.w = [c \in Counters |-> @[c] + w[c]]] ]

\* what a step of a thread leaves alone besides the mapping and the frames
outside == <<now, call, due_cards, stats, snapshot, raised, reviewed, loaded,
             aborted, other, shared, models, n_calls>>

\* a thread calls export_data()
ExportBegins ==
    /\ "export_data" \notin DOMAIN running
    /\ running' = running @@ ("export_data" :> export_frame(review_data))
    /\ UNCHANGED <<review_data, outside>>

\* the thread in export_data runs to the end of its next step
ExportSteps ==
    /\ "export_data" \in DOMAIN running
    /\ running["export_data"].ended = "no"
    /\ running' = [running EXCEPT
                     !["export_data"] = export_step(review_data, @)]
    /\ UNCHANGED <<review_data, outside>>

\* a thread calls get_due_cards(card_ids)
GetDueBegins ==
    /\ "get_due_cards" \notin DOMAIN running
    /\ \E card_ids \in CardLists :
          running' = running @@
             ("get_due_cards" :> due_frame(review_data, card_ids, now))
    /\ UNCHANGED <<review_data, outside>>

\* the thread in get_due_cards runs to the end of its next step
GetDueSteps ==
    /\ "get_due_cards" \in DOMAIN running
    /\ running["get_due_cards"].ended = "no"
    /\ LET r == due_step(review_data, running["get_due_cards"])
       IN  /\ review_data' = r.rd
           /\ running' = [running EXCEPT !["get_due_cards"] = r.frame]
    /\ UNCHANGED outside

\* a thread calls get_study_stats(card_ids)
GetStatsBegins ==
    /\ "get_study_stats" \notin DOMAIN running
    /\ \E card_ids \in CardLists :
          running' = running @@
             ("get_study_stats" :> stats_frame(review_data, card_ids, now))
    /\ UNCHANGED <<review_data, outside>>

\* the thread in get_study_stats runs to the end of its next step
GetStatsSteps ==
    /\ "get_study_stats" \in DOMAIN running
    /\ running["get_study_stats"].ended = "no"
    /\ LET r == stats_step(review_data, running["get_study_stats"])
       IN  /\ review_data' = r.rd
           /\ running' = [running EXCEPT !["get_study_stats"] = r.frame]
    /\ UNCHANGED outside

ConcurrentNext ==
    \/ ExportBegins
    \/ ExportSteps
    \/ GetDueBegins
    \/ GetDueSteps
    \/ GetStatsBegins
    \/ GetStatsSteps

\* the three read calls, one thread each, from an engine in first use
SpecConcurrent == Init /\ [][ConcurrentNext]_vars

---------------------------------------------------------------------------
(* What the claims are stated with *)

\* this step is a review_card call
ReviewStep == n_calls' = n_calls + 1 /\ call'.op = "review_card"

\* the record of the reviewed card when the call began (a card the engine has
\* not seen begins with the defaults) and when it ended
Before ==
    IF call'.card_id \in DOMAIN review_data
    THEN review_data[call'.card_id]
    ELSE NewReviewData

After == review_data'[call'.card_id]

\* the outcomes of a history, oldest first
Outcomes(history) == [i \in 1..Len(history) |-> history[i][2]]

\* the integer part of a * num / den, and whether a * num / den is an integer
IntPart(a, num, den) == (a \div den) * num + ((a % den) * num) \div den
IsInt(a, num, den) == ((a % den) * num) % den = 0

\* a * num / den rounded to the nearest integer (an exact half goes up)
Rounded(a, num, den) ==
    IntPart(a, num, den)
        + (IF 2 * (((a % den) * num) % den) >= den THEN 1 ELSE 0)

\* n is int(x) of the float that stands for a * num / den: the integer part,
\* or one less where a * num / den is an integer the float may fall short of
IsTruncation(n, a, num, den) ==
    \/ n = IntPart(a, num, den)
    \/ IsInt(a, num, den) /\ n = IntPart(a, num, den) - 1

---------------------------------------------------------------------------
\* C1: after every call of any sequence of review calls on an engine that
\* began empty, every record has 1.3 <= ease_factor <= 5.0.
C1_EaseFactorInRange ==
    \A c \in DOMAIN review_data :
        review_data[c].ease_factor >= 130 /\ review_data[c].ease_factor <= 500

\* an EASY review of a graduated card whose ease factor was 5.0 already (the
\* review before it was EASY too and left the card with seven repetitions or
\* more): the upper limit has acted
C1_Witness ==
    /\ call.op = "review_card" /\ call.result = "EASY" /\ n_calls = 2
    /\ LET d == review_data[call.card_id]
       IN  /\ d.graduated /\ d.repetition >= 7 /\ d.ease_factor = 500
           /\ Outcomes(d.review_history)[Len(d.review_history) - 1] = "EASY"

\* C2: a GOOD or EASY review of a card in the learning phase adds one to
\* learning_step; at 3 = len(LEARNING_STEPS) the card graduates in that
\* review with repetition 1 and interval 4 on EASY, 1 on GOOD, below 3 it
\* stays in the learning phase; three GOOD reviews of a new card give the
\* steps 1, 2 and graduation with interval 1.
C2_LearningAdvance ==
    [][ ReviewStep /\ ~Before.graduated /\ call'.result \in {"GOOD", "EASY"}
        => /\ After.learning_step = Before.learning_step + 1
           /\ IF After.learning_step >= 3
              THEN /\ After.graduated
                   /\ After.repetition = 1
                   /\ After.interval = (IF call'.result = "EASY" THEN 4 ELSE 1)
              ELSE ~After.graduated
           /\ Outcomes(After.review_history) = <<"GOOD">>
                => After.learning_step = 1 /\ ~After.graduated
           /\ Outcomes(After.review_history) = <<"GOOD", "GOOD">>
                => After.learning_step = 2 /\ ~After.graduated
           /\ Outcomes(After.review_history) = <<"GOOD", "GOOD", "GOOD">>
                => After.graduated /\ After.repetition = 1 /\ After.interval = 1
      ]_vars

\* a card has graduated by an EASY review, its third step
C2_Witness ==
    /\ call.op = "review_card" /\ call.result = "EASY"
    /\ LET d == review_data[call.card_id]
       IN  /\ Outcomes(d.review_history) = <<"GOOD", "GOOD", "EASY">>
           /\ d.graduated /\ d.repetition = 1 /\ d.interval = 4
           /\ d.learning_step = 3

\* C3: an AGAIN review of a graduated card leaves it not graduated, at
\* learning step 0, with repetition 0, interval 1 and the ease factor
\* max(1.3, ease factor before - 0.2).
C3_GraduatedAgainDemotes ==
    [][ ReviewStep /\ Before.graduated /\ call'.result = "AGAIN"
        => /\ ~After.graduated
           /\ After.learning_step = 0
           /\ After.repetition = 0
           /\ After.interval = 1
           /\ After.ease_factor = (IF Before.ease_factor - 20 >= 130
                                   THEN Before.ease_factor - 20 ELSE 130)
      ]_vars

\* the card of eleven reviews, graduated with ease factor 1.3 and interval 16,
\* has been demoted by the twelfth: the ease factor stayed at its lower limit
C3_Witness ==
    /\ call.op = "review_card" /\ call.result = "AGAIN" /\ n_calls = 1
    /\ LET d == review_data[call.card_id]
       IN  /\ d.total_reviews = 12 /\ ~d.graduated /\ d.ease_factor = 130
           /\ d.interval = 1 /\ d.repetition = 0 /\ d.learning_step = 0

\* C4: an AGAIN review of a card that is not graduated leaves it not
\* graduated at learning step 0, whatever the step was.
C4_LearningAgainResets ==
    [][ ReviewStep /\ ~Before.graduated /\ call'.result = "AGAIN"
        => After.learning_step = 0 /\ ~After.graduated
      ]_vars

\* a card that two GOOD reviews had taken to step 2 is back at step 0
C4_Witness ==
    /\ call.op = "review_card" /\ call.result = "AGAIN"
    /\ LET d == review_data[call.card_id]
       IN  /\ Outcomes(d.review_history) = <<"GOOD", "GOOD", "AGAIN">>
           /\ d.learning_step = 0 /\ ~d.graduated

\* C5: a HARD, GOOD or EASY review of a graduated card gives interval 1 if
\* its repetition was 0 and interval 6 if it was 1, whatever the outcome, and
\* adds exactly one to repetition; a card that has just graduated (ease
\* factor 2.5) and is reviewed GOOD ends with interval 6, repetition 2 and
\* ease factor 2.48.
C5_FirstGraduatedIntervals ==
    [][ ReviewStep /\ Before.graduated /\ call'.result \in {"HARD", "GOOD", "EASY"}
        => /\ Before.repetition = 0 => After.interval = 1
           /\ Before.repetition = 1 => After.interval = 6
           /\ After.repetition = Before.repetition + 1
           /\ Before.repetition = 1 /\ Before.ease_factor = 250
                /\ call'.result = "GOOD"
                => /\ After.interval = 6
                   /\ After.repetition = 2
                   /\ After.ease_factor = 248
      ]_vars

\* card a, graduated by three GOOD reviews, has been reviewed GOOD once more,
\* and card b, which a snapshot brought in graduated with repetition 0 and
\* interval 3, has had its first review
C5_Witness ==
    /\ call.op = "review_card"
    /\ DOMAIN review_data = {"a", "b"}
    /\ Outcomes(review_data["a"].review_history) = <<"GOOD", "GOOD", "GOOD", "GOOD">>
    /\ review_data["a"].interval = 6 /\ review_data["a"].repetition = 2
    /\ review_data["a"].ease_factor = 248
    /\ review_data["b"].graduated /\ review_data["b"].total_reviews = 1
    /\ review_data["b"].interval = 1 /\ review_data["b"].repetition = 1

\* C6 as the specification states it: with repetition 2 or more the interval
\* becomes max(1, round(interval x 1.2)) on HARD, round(interval x ease factor
\* x 1.3) on EASY and round(interval x ease factor) on GOOD, rounded to the
\* nearest integer (the ease factor being the adjusted one).
C6_IntervalRounded ==
    [][ ReviewStep /\ Before.graduated /\ Before.repetition >= 2
            /\ call'.result \in {"HARD", "GOOD", "EASY"}
        => After.interval =
             (CASE call'.result = "HARD" ->
                     (IF Rounded(Before.interval, 12, 10) >= 1
                      THEN Rounded(Before.interval, 12, 10) ELSE 1)
                [] call'.result = "EASY" ->
                     Rounded(Before.interval, After.ease_factor * 13, 1000)
                [] call'.result = "GOOD" ->
                     Rounded(Before.interval, After.ease_factor, 100))
      ]_vars

\* C6, amended: with repetition 2 or more the interval becomes the product
\* truncated to its integer part, int(), never rounded up: max(1,
\* int(interval x 1.2)) on HARD, int(interval x ease factor x 1.3) on EASY and
\* int(interval x ease factor) on GOOD, the factors being floats.
C6_IntervalTruncated ==
    [][ ReviewStep /\ Before.graduated /\ Before.repetition >= 2
            /\ call'.result \in {"HARD", "GOOD", "EASY"}
        => CASE call'.result = "HARD" ->
                    After.interval = (IF IntPart(Before.interval, 12, 10) >= 1
                                      THEN IntPart(Before.interval, 12, 10) ELSE 1)
             [] call'.result = "EASY" ->
                    IsTruncation(After.interval, Before.interval,
                                 After.ease_factor * 13, 1000)
             [] call'.result = "GOOD" ->
                    IsTruncation(After.interval, Before.interval,
                                 After.ease_factor, 100)
      ]_vars

\* interval 6 with the ease factor adjusted to 2.46, reviewed GOOD, has become
\* 14, the integer part of 14.76
C6_Witness ==
    /\ call.op = "review_card" /\ call.result = "GOOD"
    /\ LET d == review_data[call.card_id]
       IN  /\ Outcomes(d.review_history)
                = <<"GOOD", "GOOD", "GOOD", "GOOD", "GOOD">>
           /\ d.ease_factor = 246 /\ d.repetition = 3 /\ d.interval = 14

\* C7: a HARD, GOOD or EASY review of a graduated card adjusts the ease
\* factor first (HARD max(1.3, ease - 0.15), EASY min(5.0, ease + 0.1), GOOD
\* max(1.3, ease - 0.02)) and computes the interval for repetition 2 or more
\* from the adjusted ease factor.
C7_EaseAdjustedFirst ==
    [][ ReviewStep /\ Before.graduated /\ call'.result \in {"HARD", "GOOD", "EASY"}
        => /\ After.ease_factor =
                (CASE call'.result = "HARD" ->
                        (IF Before.ease_factor - 15 >= 130
                         THEN Before.ease_factor - 15 ELSE 130)
                   [] call'.result = "EASY" ->
                        (IF Before.ease_factor + 10 <= 500
                         THEN Before.ease_factor + 10 ELSE 500)
                   [] call'.result = "GOOD" ->
                        (IF Before.ease_factor - 2 >= 130
                         THEN Before.ease_factor - 2 ELSE 130))
           /\ Before.repetition >= 2 /\ call'.result = "EASY"
                => IsTruncation(After.interval, Before.interval,
                                After.ease_factor * 13, 1000)
           /\ Before.repetition >= 2 /\ call'.result = "GOOD"
                => IsTruncation(After.interval, Before.interval,
                                After.ease_factor, 100)
      ]_vars

\* interval 6 at ease factor 2.6, reviewed EASY: the interval is 21, from the
\* adjusted 2.7 (6 x 2.7 x 1.3 = 21.06), where 2.6 would have given 20
C7_Witness ==
    /\ call.op = "review_card" /\ call.result = "EASY"
    /\ LET d == review_data[call.card_id]
       IN  /\ Outcomes(d.review_history)
                = <<"GOOD", "GOOD", "GOOD", "EASY", "EASY">>
           /\ d.ease_factor = 270 /\ d.repetition = 3 /\ d.interval = 21

\* C8: after every review call the next_review of the reviewed card is
\* computed anew from the state the review produced: the clock plus
\* LEARNING_STEPS[learning_step] minutes if the card is not graduated then,
\* plus interval days if it is.
C8_NextReviewRecomputed ==
    [][ ReviewStep
        => After.next_review =
             (IF After.graduated
              THEN Some(plus(now', After.interval, 0))
              ELSE Some(plus(now', 0, LEARNING_STEPS[After.learning_step + 1])))
      ]_vars

\* this step is a get_due_cards call that returned
GetDueStep ==
    n_calls' = n_calls + 1 /\ call'.op = "get_due_cards" /\ raised' = "none"

\* the members of a list
Members(list) == {list[i] : i \in 1..Len(list)}

\* the next_review of card c as the call finds it: None for an unseen card
NextReviewOf(c) ==
    IF c \in DOMAIN review_data THEN review_data[c].next_review ELSE None

\* the datetime is later than the clock shows
Later(dt) ==
    dt.day > now.day \/ (dt.day = now.day /\ dt.minute > now.minute)

\* C9: get_due_cards(card_ids) returns exactly the given ids whose record has
\* no next_review or a next_review that is not later than now.
C9_DueExactly ==
    [][ GetDueStep
        => Members(due_cards'[1]) =
             { c \in Members(call'.card_ids) :
                 NextReviewOf(c) = None \/ ~Later(NextReviewOf(c)[1]) }
      ]_vars

\* get_due_cards(["a", "b"]) has returned ["b"]: a was reviewed and is due
\* later, b was never reviewed
C9_Witness ==
    /\ call.op = "get_due_cards" /\ call.card_ids = <<"a", "b">>
    /\ raised = "none" /\ due_cards = Some(<<"b">>)
    /\ "a" \in reviewed /\ "b" \notin reviewed /\ loaded = {}
    /\ review_data["a"].next_review # None
    /\ review_data["b"].next_review = None

\* C10 as stated: in every state reached by review, get_due, get_stats,
\* export and import calls, get_due_cards returns every requested card id
\* that was never passed to review_card.
C10_NeverReviewedIsDue ==
    [][ GetDueStep
        => \A c \in Members(call'.card_ids) :
              c \notin reviewed => c \in Members(due_cards'[1])
      ]_vars

\* C10, amended: get_due_cards returns every requested card id that was
\* never passed to review_card, unless import_data has stored for it a record
\* whose next_review is later than now.
C10_NeverReviewedNorLoadedIsDue ==
    [][ GetDueStep
        => \A c \in Members(call'.card_ids) :
              /\ c \notin reviewed
              /\ ~(c \in loaded /\ NextReviewOf(c) # None
                     /\ Later(NextReviewOf(c)[1]))
              => c \in Members(due_cards'[1])
      ]_vars

\* get_due_cards(["a", "b"]) has returned ["a"]: neither card was ever
\* reviewed, and import_data stored b with a next_review three days ahead
C10_Witness ==
    /\ call.op = "get_due_cards" /\ call.card_ids = <<"a", "b">>
    /\ raised = "none" /\ due_cards = Some(<<"a">>)
    /\ reviewed = {} /\ loaded = {"b"}

---------------------------------------------------------------------------
\* C17: after any number of review calls on a card, its response_times has
\* at most 50 entries.
C17_ResponseTimesBounded ==
    \A c \in DOMAIN review_data : Len(review_data[c].response_times) <= 50

\* a card reviewed 59 times: response_times was full at the 50th review and
\* has been cut nine times since
C17_Witness ==
    /\ call.op = "review_card"
    /\ review_data[call.card_id].total_reviews = 59
    /\ Len(review_data[call.card_id].review_history) = 59
    /\ Len(review_data[call.card_id].response_times) = 50

\* the response times of the last m entries of a history
LastTimes(history, m) ==
    [i \in 1..m |-> history[Len(history) - m + i][3]]

\* C18: after n review calls on a card of an engine that began empty,
\* response_times is, in order, the response times of the last min(n, 50)
\* entries of the card's review_history: the oldest value is the one dropped
\* when the 51st arrives.
C18_ResponseTimesFifo ==
    \A c \in DOMAIN review_data :
        LET history == review_data[c].review_history
            m       == IF Len(history) <= 50 THEN Len(history) ELSE 50
        IN  review_data[c].response_times = LastTimes(history, m)

\* the 58th review of a card whose reviews took 1, 2, ..., 57 seconds: the
\* window begins with the ninth value and ends with the 5 seconds just added
C18_Witness ==
    /\ call.op = "review_card" /\ n_calls = 1
    /\ LET d == review_data[call.card_id]
       IN  /\ d.total_reviews = 58
           /\ Len(d.response_times) = 50
           /\ d.response_times[1] = 9
           /\ d.response_times[49] = 57
           /\ d.response_times[50] = 5
           /\ d.review_history[1][3] = 1

---------------------------------------------------------------------------
\* C19: from an empty engine, after every call of any sequence of review
\* calls, every record with graduated = true has interval >= 1.
C19_GraduatedIntervalPositive ==
    \A c \in DOMAIN review_data :
        review_data[c].graduated => review_data[c].interval >= 1

\* a card that graduated, lapsed and has graduated again by three GOOD
\* reviews: its interval is 1, the least a graduated card has
C19_Witness ==
    /\ call.op = "review_card" /\ call.result = "GOOD"
    /\ LET d == review_data[call.card_id]
       IN  /\ Outcomes(d.review_history)
                = <<"GOOD", "GOOD", "GOOD", "AGAIN", "GOOD", "GOOD", "GOOD">>
           /\ d.graduated /\ d.interval = 1 /\ d.repetition = 1

---------------------------------------------------------------------------
\* the ids of this call that the engine has no record of when it begins
Unseen ==
    IF call'.op = "review_card"
    THEN {call'.card_id} \ DOMAIN review_data
    ELSE Members(call'.card_ids) \ DOMAIN review_data

\* C20: review_card, get_due_cards and get_study_stats do not fail on a card
\* id the engine has no record of: the call creates the record from the
\* defaults (ease factor 2.5, not graduated, learning step 0, no
\* next_review); a query leaves it so and get_due_cards returns the id, a
\* review goes on from the defaults.
C20_UnseenCardCreated ==
    [][ n_calls' = n_calls + 1
            /\ call'.op \in {"review_card", "get_due_cards", "get_study_stats"}
            /\ Unseen # {}
        => /\ raised' = "none"
           /\ \A c \in Unseen :
                /\ c \in DOMAIN review_data'
                /\ review_data'[c].ease_factor = 250
                /\ ~review_data'[c].graduated
                /\ IF call'.op = "review_card"
                   THEN /\ review_data'[c].total_reviews = 1
                        /\ review_data'[c].learning_step =
                             (IF call'.result \in {"GOOD", "EASY"} THEN 1 ELSE 0)
                        /\ review_data'[c].next_review # None
                   ELSE /\ review_data'[c].total_reviews = 0
                        /\ review_data'[c].learning_step = 0
                        /\ review_data'[c].next_review = None
                        /\ review_data'[c].last_review = None
                /\ call'.op = "get_due_cards" => c \in Members(due_cards'[1])
                /\ call'.op = "get_study_stats" /\ Unseen = Members(call'.card_ids)
                     => stats'[1].new_cards = Len(call'.card_ids)
      ]_vars

\* the first call on the engine as constructed was get_due_cards(["a", "b"]):
\* it returned both ids and left a default record for each
C20_Witness ==
    /\ n_calls = 1 /\ call.op = "get_due_cards" /\ raised = "none"
    /\ call.card_ids = <<"a", "b">> /\ due_cards = Some(<<"a", "b">>)
    /\ reviewed = {} /\ loaded = {}
    /\ DOMAIN review_data = {"a", "b"}
    /\ review_data["a"] = review_data["b"]
    /\ review_data["b"].ease_factor = 250 /\ review_data["b"].next_review = None

---------------------------------------------------------------------------
\* this step loads, into a second engine, the snapshot of the mapping as it
\* is now
RoundTripStep ==
    /\ n_calls' = n_calls + 1 /\ call'.op = "restore"
    /\ snapshot = Some(export_data(review_data))

\* C12: for an engine reached by review calls, export_data followed by
\* import_data of the snapshot into a new engine gives that engine the same
\* mapping, record by record and field by field (the timestamps and outcomes
\* of review_history included), so get_study_stats of the second engine
\* returns what the first returns for the same ids at the same time.
C12_RoundTrip ==
    [][ RoundTripStep
        => /\ raised' = "none"
           /\ DOMAIN other'[1] = DOMAIN review_data
           /\ \A c \in DOMAIN review_data :
                /\ other'[1][c].review_history = review_data[c].review_history
                /\ other'[1][c].last_review = review_data[c].last_review
                /\ other'[1][c].next_review = review_data[c].next_review
                /\ other'[1][c] = review_data[c]
           /\ \A card_ids \in CardLists :
                get_study_stats(other'[1], card_ids, now)
                    = get_study_stats(review_data, card_ids, now)
      ]_vars

\* the engine with the card of 57 reviews, and card b reviewed HARD, has
\* been exported and loaded into a second engine
C12_Witness ==
    /\ n_calls = 3 /\ call.op = "restore" /\ raised = "none"
    /\ snapshot = Some(export_data(review_data))
    /\ other = Some(review_data)
    /\ DOMAIN review_data = {"a", "b"}
    /\ Len(review_data["a"].review_history) = 57
    /\ Outcomes(review_data["b"].review_history) = <<"HARD">>
    /\ review_data["b"].next_review # None

---------------------------------------------------------------------------
\* C11 as stated: in a state reached by review_card calls and import_data
\* calls that all returned, get_due_cards returns whatever ids it is given:
\* it does not raise (import_data has refused a timestamp without a timezone
\* or has made it a UTC one, so that every stored next_review can be compared
\* with the UTC clock).
C11_GetDueNeverRaises ==
    [][ n_calls' = n_calls + 1 /\ call'.op = "get_due_cards" /\ ~aborted
        => raised' = "none"
      ]_vars

---------------------------------------------------------------------------
\* this step is an import_data call
ImportStep == n_calls' = n_calls + 1 /\ call'.op = "import_data"

\* the ids of a snapshot, and the card_data it has for an id
SnapshotIds(data) == {data[i][1] : i \in 1..Len(data)}
CardData(data, c) == data[CHOOSE i \in 1..Len(data) : data[i][1] = c][2]

\* the value a snapshot record gives for a key, or the default where it
\* gives none
Field(card_data, key, default) ==
    IF key \in DOMAIN card_data THEN card_data[key] ELSE default

\* the snapshot record gives no timestamp for the key: none at all, None or
\* the empty string
NoTime(card_data, key) ==
    \/ key \notin DOMAIN card_data
    \/ card_data[key] = <<>>
    \/ card_data[key][1].empty

\* the datetime dt is the one the timestamp string names
Names(text, dt) ==
    /\ dt.day = text.day /\ dt.minute = text.minute
    /\ dt.tz = (IF text.offset = "+00:00" THEN "UTC" ELSE "naive")

\* the optional datetime stored is what the snapshot record gives for the key
TimeTaken(stored, card_data, key) ==
    IF NoTime(card_data, key)
    THEN stored = <<>>
    ELSE stored # <<>> /\ Names(card_data[key][1], stored[1])

\* C13: an import_data call that returns replaces, for every card id of the
\* snapshot, the record of the engine by the record of the snapshot, whole:
\* every field is the snapshot's or, where the snapshot has none, the
\* default, nothing is kept of the record there was; the record of every
\* other card id is as it was.
C13_ImportUpserts ==
    [][ ImportStep /\ raised' = "none"
        => /\ DOMAIN review_data' = DOMAIN review_data \cup SnapshotIds(call'.data)
           /\ \A c \in DOMAIN review_data \ SnapshotIds(call'.data) :
                review_data'[c] = review_data[c]
           /\ \A c \in SnapshotIds(call'.data) :
                LET card_data == CardData(call'.data, c)
                    r         == review_data'[c]
                    history   == Field(card_data, "review_history", <<>>)
                IN  /\ r.ease_factor = Field(card_data, "ease_factor", 250)
                    /\ r.interval = Field(card_data, "interval", 1)
                    /\ r.repetition = Field(card_data, "repetition", 0)
                    /\ r.total_reviews = Field(card_data, "total_reviews", 0)
                    /\ r.total_time_spent = Field(card_data, "total_time_spent", 0)
                    /\ r.learning_step = Field(card_data, "learning_step", 0)
                    /\ r.graduated = Field(card_data, "graduated", FALSE)
                    /\ r.response_times = Field(card_data, "response_times", <<>>)
                    /\ TimeTaken(r.last_review, card_data, "last_review")
                    /\ TimeTaken(r.next_review, card_data, "next_review")
                    /\ Len(r.review_history) = Len(history)
                    /\ \A i \in 1..Len(history) :
                         /\ Names(history[i][1], r.review_history[i][1])
                         /\ r.review_history[i][2]
                              = <<"AGAIN", "HARD", "GOOD", "EASY">>[history[i][2] + 1]
                         /\ r.review_history[i][3] = history[i][3]
      ]_vars

\* the engine held card a, reviewed three times, and card b, reviewed once;
\* a snapshot of card b alone has been loaded: b is the snapshot's record
\* with the defaults for what the snapshot lacks, a is as it was
C13_Witness ==
    /\ n_calls = 2 /\ call.op = "import_data" /\ raised = "none"
    /\ SnapshotIds(call.data) = {"b"}
    /\ reviewed = {"a", "b"} /\ loaded = {"b"}
    /\ review_data["a"].total_reviews = 3
    /\ review_data["b"].total_reviews = 0
    /\ review_data["b"].review_history = <<>>
    /\ review_data["b"].last_review = <<>>
    /\ review_data["b"].graduated /\ review_data["b"].interval = 3

---------------------------------------------------------------------------
\* C14 as stated: an import_data call that raises on invalid snapshot data
\* (the second of two entries has an unparseable timestamp or an outcome
\* code that is out of range) leaves the mapping exactly as it was before
\* the call: no record of the failing snapshot has been written.
C14_FailedImportWritesNothing ==
    [][ ImportStep /\ raised' # "none" => review_data' = review_data ]_vars

\* a timestamp string of a snapshot record that fromisoformat does not parse
BadTime(card_data, key) ==
    /\ key \in DOMAIN card_data
    /\ card_data[key] # <<>>
    /\ ~card_data[key][1].valid

\* the snapshot has a record with an unparseable last_review or next_review,
\* or a history entry with an unparseable timestamp or an outcome code
\* outside 0..3
Malformed(data) ==
    \E i \in 1..Len(data) :
        LET card_data == data[i][2]
            history   == Field(card_data, "review_history", <<>>)
        IN  \/ BadTime(card_data, "last_review")
            \/ BadTime(card_data, "next_review")
            \/ \E j \in 1..Len(history) :
                  ~history[j][1].valid \/ history[j][2] \notin 0..3

\* C15 as stated: import_data of a snapshot in which a record has an
\* unparseable timestamp (last_review, next_review or one of a history
\* entry) or an outcome code outside 0..3 raises; it does not return having
\* skipped what was bad.
C15_MalformedSnapshotRaises ==
    [][ ImportStep /\ Malformed(call'.data) => raised' # "none" ]_vars

\* the invariant set of a record
RecordInvariants(r) ==
    /\ r.ease_factor >= 130 /\ r.ease_factor <= 500
    /\ r.graduated => r.interval >= 1
    /\ ~r.graduated => r.learning_step >= 0 /\ r.learning_step <= 3
    /\ Len(r.response_times) <= 50
    /\ r.total_reviews >= 0 /\ r.repetition >= 0 /\ r.total_time_spent >= 0

\* C16 as stated: after an import_data call that returned, every record of
\* the mapping has 1.3 <= ease_factor <= 5.0, interval >= 1 if graduated,
\* 0 <= learning_step <= 3 if not, at most 50 response_times and counts that
\* are not negative (a snapshot that breaks this is refused, not stored).
C16_InvariantsAfterImport ==
    call.op = "import_data" /\ raised = "none"
        => \A c \in DOMAIN review_data : RecordInvariants(review_data[c])

---------------------------------------------------------------------------
\* this step is a get_study_stats call that returned
StatsStep ==
    n_calls' = n_calls + 1 /\ call'.op = "get_study_stats" /\ raised' = "none"

---------------------------------------------------------------------------
\* the places of the requested list whose card has, when the call is over, a
\* record that is not graduated; of these, those with a next_review; and
\* those whose record is graduated
NotGraduatedAt(card_ids) ==
    {i \in 1..Len(card_ids) : ~review_data'[card_ids[i]].graduated}

LearningAt(card_ids) ==
    {i \in NotGraduatedAt(card_ids) :
        review_data'[card_ids[i]].next_review # <<>>}

GraduatedAt(card_ids) ==
    {i \in 1..Len(card_ids) : review_data'[card_ids[i]].graduated}

\* C22 as stated: learning_cards of get_study_stats is the number of
\* requested ids whose record has graduated = false.
C22_LearningCountsNotGraduated ==
    [][ StatsStep
        => stats'[1].learning_cards = Cardinality(NotGraduatedAt(call'.card_ids))
      ]_vars

\* C22, amended: learning_cards of get_study_stats is the number of
\* requested ids whose record has a next_review (the card has been reviewed
\* or loaded with one) and graduated = false; a card without next_review is
\* counted in new_cards and not here.
C22_LearningCountsScheduledNotGraduated ==
    [][ StatsStep
        => stats'[1].learning_cards = Cardinality(LearningAt(call'.card_ids))
      ]_vars

\* get_study_stats(["a", "b"]) with a reviewed once and still learning and b
\* never seen: one learning card and one new card, two not graduated
C22_Witness ==
    /\ call.op = "get_study_stats" /\ call.card_ids = <<"a", "b">>
    /\ raised = "none" /\ reviewed = {"a"} /\ loaded = {}
    /\ review_data["a"].total_reviews = 1
    /\ ~review_data["a"].graduated /\ ~review_data["b"].graduated
    /\ stats # None
    /\ stats[1].learning_cards = 1 /\ stats[1].new_cards = 1

\* C23: get_study_stats over a list of n >= 1 distinct ids, none of them
\* ever reviewed (nor loaded from a snapshot), returns total_cards n,
\* new_cards n, learning_cards 0, due_cards 0, total_reviews 0, average_ease
\* 2.5, average_interval 0, success_rate 0 and total_study_time 0.
C23_StatsOfNewCards ==
    [][ StatsStep
            /\ call'.card_ids # <<>>
            /\ Cardinality(Members(call'.card_ids)) = Len(call'.card_ids)
            /\ Members(call'.card_ids) \cap (reviewed \cup loaded) = {}
        => stats'[1] =
             [ total_cards |-> Len(call'.card_ids),
               new_cards |-> Len(call'.card_ids),
               learning_cards |-> 0, due_cards |-> 0, total_reviews |-> 0,
               average_ease |-> <<250, 1>>, average_interval |-> <<0, 1>>,
               success_rate |-> <<0, 1>>, total_study_time |-> 0 ]
      ]_vars

\* get_study_stats(["a", "b"]) on an engine on which no card was ever
\* reviewed, after get_due_cards had created the record of a: two new cards
C23_Witness ==
    /\ n_calls = 2
    /\ call.op = "get_study_stats" /\ call.card_ids = <<"a", "b">>
    /\ raised = "none" /\ reviewed = {} /\ loaded = {}
    /\ due_cards = Some(<<"a">>)
    /\ stats # None
    /\ stats[1].total_cards = 2 /\ stats[1].new_cards = 2
    /\ stats[1].average_ease = <<250, 1>>

\* the sum of a field over the records of the graduated cards of
\* card_ids[1..k]
RECURSIVE GraduatedSum(_, _, _)
GraduatedSum(card_ids, k, field) ==
    IF k = 0 THEN 0
    ELSE GraduatedSum(card_ids, k - 1, field)
           + (IF review_data'[card_ids[k]].graduated
              THEN review_data'[card_ids[k]][field] ELSE 0)

\* the fraction in lowest terms is total / count
IsMean(fraction, total, count) ==
    /\ fraction[1] * count = total * fraction[2]
    /\ fraction[2] >= 1
    /\ \A d \in 2..fraction[2] : ~(fraction[1] % d = 0 /\ fraction[2] % d = 0)

\* C25: average_ease and average_interval of get_study_stats over a list of
\* ids are the means of ease_factor and interval over the requested records
\* that are graduated; the records in the learning phase add nothing to
\* them.  Where no requested record is graduated they are 2.5 and 0.
C25_MeansOverGraduated ==
    [][ StatsStep /\ call'.card_ids # <<>>
        => LET card_ids == call'.card_ids
               count    == Cardinality(GraduatedAt(card_ids))
           IN  IF count = 0
               THEN /\ stats'[1].average_ease = <<250, 1>>
                    /\ stats'[1].average_interval = <<0, 1>>
               ELSE /\ IsMean(stats'[1].average_ease,
                              GraduatedSum(card_ids, Len(card_ids), "ease_factor"),
                              count)
                    /\ IsMean(stats'[1].average_interval,
                              GraduatedSum(card_ids, Len(card_ids), "interval"),
                              count)
      ]_vars

\* get_study_stats(["a", "b"]) with a graduated (ease factor 2.48, interval 6)
\* and b reviewed once and learning: the means are those of a alone
C25_Witness ==
    /\ call.op = "get_study_stats" /\ call.card_ids = <<"a", "b">>
    /\ raised = "none" /\ reviewed = {"a", "b"}
    /\ review_data["a"].graduated /\ review_data["a"].interval = 6
    /\ review_data["a"].ease_factor = 248
    /\ ~review_data["b"].graduated /\ review_data["b"].total_reviews = 1
    /\ stats # None
    /\ stats[1].average_ease = <<248, 1>>
    /\ stats[1].average_interval = <<6, 1>>
    /\ stats[1].learning_cards = 1

---------------------------------------------------------------------------
\* the number of entries, and of GOOD or EASY entries, in the histories of
\* the records of card_ids[1..k]
RECURSIVE HistoryEntries(_, _)
HistoryEntries(card_ids, k) ==
    IF k = 0 THEN 0
    ELSE HistoryEntries(card_ids, k - 1)
           + Len(review_data'[card_ids[k]].review_history)

RECURSIVE SuccessfulEntries(_, _)
SuccessfulEntries(card_ids, k) ==
    IF k = 0 THEN 0
    ELSE SuccessfulEntries(card_ids, k - 1)
           + Cardinality({i \in 1..Len(review_data'[card_ids[k]].review_history) :
                review_data'[card_ids[k]].review_history[i][2] \in {"GOOD", "EASY"}})

\* C24 as stated: in every state, one loaded by import_data included, the
\* success_rate of get_study_stats is the number of GOOD or EASY entries in
\* the review histories of the requested records divided by the number of
\* entries in those histories, and 0 where the histories are empty.
C24_SuccessRateOverHistories ==
    [][ StatsStep
        => LET card_ids == call'.card_ids
               entries  == HistoryEntries(card_ids, Len(card_ids))
               good     == SuccessfulEntries(card_ids, Len(card_ids))
           IN  IF entries = 0
               THEN stats'[1].success_rate = <<0, 1>>
               ELSE IsMean(stats'[1].success_rate, good, entries)
      ]_vars

\* C26 as stated: get_study_stats of the empty list returns zero for every
\* count, sum and rate, and for the means what a non-empty list without a
\* graduated card gets: average_ease 2.5 and average_interval 0.
C26_StatsOfNoCards ==
    [][ StatsStep /\ call'.card_ids = <<>>
        => stats'[1] =
             [ total_cards |-> 0, new_cards |-> 0, learning_cards |-> 0,
               due_cards |-> 0, total_reviews |-> 0,
               average_ease |-> <<250, 1>>, average_interval |-> <<0, 1>>,
               success_rate |-> <<0, 1>>, total_study_time |-> 0 ]
      ]_vars

---------------------------------------------------------------------------
\* the sum of the response times of the entries 1..k of a history
RECURSIVE TimeSum(_, _)
TimeSum(history, k) ==
    IF k = 0 THEN 0 ELSE TimeSum(history, k - 1) + history[k][3]

\* C27: a review_card call adds exactly one entry to the review_history of
\* the card, one to total_reviews and the response time to total_time_spent,
\* and sets last_review; so after any sequence of review calls from an empty
\* engine every record has total_reviews equal to the length of its
\* review_history and total_time_spent equal to the sum of the response
\* times of that history.
C27_ReviewIsCounted ==
    /\ [](\A c \in DOMAIN review_data :
            /\ review_data[c].total_reviews = Len(review_data[c].review_history)
            /\ review_data[c].total_time_spent
                 = TimeSum(review_data[c].review_history,
                           Len(review_data[c].review_history)))
    /\ [][ ReviewStep
           => /\ Len(After.review_history) = Len(Before.review_history) + 1
              /\ After.total_reviews = Before.total_reviews + 1
              /\ After.total_time_spent
                   = Before.total_time_spent + call'.response_time
              /\ After.last_review = <<now>>
         ]_vars

\* the card whose 57 reviews took 1, 2, ..., 57 seconds has been reviewed
\* twice more, five seconds each: 59 entries, 1663 seconds
C27_Witness ==
    /\ call.op = "review_card" /\ n_calls = 2
    /\ LET d == review_data[call.card_id]
       IN  /\ Len(d.review_history) = 59 /\ d.total_reviews = 59
           /\ d.total_time_spent = 1663
           /\ d.last_review = <<now>>

---------------------------------------------------------------------------
\* the timestamps of a history never go back from one entry to the next
Chronological(history) ==
    \A i \in 1..Len(history) - 1 :
        \/ history[i][1].day < history[i + 1][1].day
        \/ /\ history[i][1].day = history[i + 1][1].day
           /\ history[i][1].minute <= history[i + 1][1].minute

\* C28: a review_card call leaves the entries that the review_history of the
\* card had, each in its place, and adds the new entry, stamped with the
\* clock, after them; the clock never going back, the timestamps of every
\* history are in non-decreasing order.
C28_HistoryAppendOnly ==
    /\ [][ ReviewStep
           => /\ Len(After.review_history) = Len(Before.review_history) + 1
              /\ \A i \in 1..Len(Before.review_history) :
                    After.review_history[i] = Before.review_history[i]
              /\ After.review_history[Len(After.review_history)]
                   = <<now, call'.result, call'.response_time>>
         ]_vars
    /\ [](\A c \in DOMAIN review_data :
            Chronological(review_data[c].review_history))

\* card a, reviewed at minutes 0, 1 and 2, has been reviewed at minute 3 and,
\* a day having passed, once more
C28_Witness ==
    /\ n_calls = 3 /\ call.op = "review_card" /\ call.card_id = "a"
    /\ loaded = {}
    /\ LET history == review_data["a"].review_history
       IN  /\ Len(history) = 5
           /\ history[1][1].day = 0 /\ history[1][1].minute = 0
           /\ history[4][1].day = 0 /\ history[4][1].minute = 3
           /\ history[5][1].day = 1 /\ history[5][1].minute = 3
           /\ history[5][2] = call.result

\* C29: whatever the calls made (review_card, get_due_cards,
\* get_study_stats, export_data, import_data), a card id that is in the
\* mapping stays in it: the set of card ids of the mapping only grows.
C29_RecordsNeverDeleted ==
    [][ DOMAIN review_data \subseteq DOMAIN review_data' ]_vars

\* the engine held card a; a snapshot of card b alone has been loaded and
\* card a is still there, and both are after the query that followed
C29_Witness ==
    /\ n_calls = 2 /\ call.op = "get_due_cards"
    /\ loaded = {"b"} /\ reviewed = {"a"}
    /\ DOMAIN review_data = {"a", "b"}
    /\ review_data["a"].total_reviews = 3


---------------------------------------------------------------------------
(* C30 *)

\* C30: get_due, get_stats and export_state are read-only and may run at the
\* same time: in every interleaving of their steps each call ends without an
\* error and returns what it returns when it runs alone from the mapping it
\* began with.  (This does not hold: get_due_cards and get_study_stats
\* insert the records they miss, and the iterator of export_data raises
\* RuntimeError when the mapping has grown.)
C30_ConcurrentReadsComplete ==
    \A op \in DOMAIN running :
        LET f == running[op]
        IN  /\ f.ended \in {"no", "returned"}
            /\ f.ended = "returned" =>
                 CASE op = "export_data" ->
                        f.exported = export_data(f.began)
                   [] op = "get_due_cards" ->
                        f.due = get_due_cards(f.began, f.card_ids, f.t).due
                   [] op = "get_study_stats" ->
                        f.stats = Some(get_study_stats(f.began, f.card_ids,
                                                       f.t).stats)

\* only export_data fails: the two queries return what they return alone,
\* and export_data returns that or raises RuntimeError
OnlyExportFails ==
    \A op \in DOMAIN running :
        LET f == running[op]
        IN  /\ f.ended \in {"no", "returned", "RuntimeError"}
            /\ f.ended = "RuntimeError" => op = "export_data"
            /\ f.ended = "returned" =>
                 CASE op = "export_data" ->
                        f.exported = export_data(f.began)
                   [] op = "get_due_cards" ->
                        f.due = get_due_cards(f.began, f.card_ids, f.t).due
                   [] op = "get_study_stats" ->
                        f.stats = Some(get_study_stats(f.began, f.card_ids,
                                                       f.t).stats)


---------------------------------------------------------------------------
(* C33 *)

\* the phase the outcomes[1..k] of a card lead to, as the learning phase is
\* described: whether the card is graduated and, while it is not, the number
\* of GOOD and EASY outcomes since its creation, its last AGAIN in the
\* learning phase or its last demotion
RECURSIVE Phase(_, _)
Phase(outcomes, k) ==
    IF k = 0
    THEN [graduated |-> FALSE, successes |-> 0]
    ELSE LET p == Phase(outcomes, k - 1)
         IN  IF outcomes[k] = "AGAIN"
             THEN [graduated |-> FALSE, successes |-> 0]
             ELSE IF p.graduated \/ outcomes[k] = "HARD"
             THEN p
             ELSE IF p.successes + 1 = Len(LEARNING_STEPS)
             THEN [graduated |-> TRUE, successes |-> 0]
             ELSE [p EXCEPT !.successes = @ + 1]

PhaseOf(data) ==
    Phase(Outcomes(data.review_history), Len(data.review_history))

\* C33: the learning phase has len(LEARNING_STEPS) = 3 steps.  A card is
\* graduated exactly when its outcomes say so, a card reviewed with HARD and
\* AGAIN only is not graduated, and a review of a card in the learning phase
\* graduates it exactly when the outcome is GOOD or EASY and brings the
\* number of GOOD and EASY outcomes since the creation, the last AGAIN or
\* the last demotion to 3; HARD leaves that number and the step as they are.
C33_GraduatesAtThirdSuccess ==
    /\ [](\A c \in DOMAIN review_data :
            /\ review_data[c].graduated = PhaseOf(review_data[c]).graduated
            /\ ~review_data[c].graduated =>
                 review_data[c].learning_step = PhaseOf(review_data[c]).successes
            /\ (\A i \in 1..Len(review_data[c].review_history) :
                   review_data[c].review_history[i][2] \in {"HARD", "AGAIN"})
                 => ~review_data[c].graduated)
    /\ [][ (ReviewStep /\ ~Before.graduated) =>
             /\ After.graduated <=>
                  /\ call'.result \in {"GOOD", "EASY"}
                  /\ PhaseOf(Before).successes = Len(LEARNING_STEPS) - 1
             /\ call'.result = "HARD" =>
                  /\ After.learning_step = Before.learning_step
                  /\ PhaseOf(After) = PhaseOf(Before) ]_vars

\* a card has just graduated at its third GOOD, a HARD review having come
\* between the first and the second
C33_Witness ==
    /\ call.op = "review_card" /\ call.card_id = "a"
    /\ "a" \in DOMAIN review_data
    /\ Outcomes(review_data["a"].review_history)
          = <<"GOOD", "HARD", "GOOD", "GOOD">>
    /\ review_data["a"].graduated


---------------------------------------------------------------------------
(* C34 *)

\* C34: in every state reached from the engine as constructed through
\* review calls, a record that is not graduated has its learning step in
\* 0 .. len(LEARNING_STEPS) - 1, so _calculate_next_review, which gets the
\* record with the learning step the call leaves, never takes its
\* "now + 1 day" branch.
C34_LearningStepInRange ==
    /\ [](\A c \in DOMAIN review_data :
            ~review_data[c].graduated =>
               /\ 0 <= review_data[c].learning_step
               /\ review_data[c].learning_step < Len(LEARNING_STEPS))
    /\ [][ (ReviewStep /\ ~After.graduated) =>
             /\ After.learning_step < Len(LEARNING_STEPS)
             /\ After.next_review =
                  Some(plus(now', 0, LEARNING_STEPS[After.learning_step + 1])) ]_vars

\* a review has left a card at the last learning step, with the next review
\* LEARNING_STEPS[2] = 1440 minutes later
C34_Witness ==
    /\ call.op = "review_card" /\ call.card_id = "a"
    /\ "a" \in DOMAIN review_data
    /\ ~review_data["a"].graduated
    /\ review_data["a"].learning_step = Len(LEARNING_STEPS) - 1
    /\ review_data["a"].next_review = Some(plus(now, 0, 1440))

---------------------------------------------------------------------------
(* C35 *)

\* C35: in every state reached from the engine as constructed through
\* review calls, a review of a graduated card with HARD, GOOD or EASY leaves
\* the interval strictly greater than it was, and a review that leaves the
\* interval smaller than it was is the AGAIN review of a graduated card.
C35_IntervalWidens ==
    [][ ReviewStep =>
          /\ (Before.graduated /\ call'.result # "AGAIN")
                => After.interval > Before.interval
          /\ After.interval < Before.interval
                => (Before.graduated /\ call'.result = "AGAIN") ]_vars

\* a HARD review of a card graduated for two or more repetitions has taken
\* the interval from 6 days to 7
C35_Witness ==
    /\ call.op = "review_card" /\ call.card_id = "a" /\ call.result = "HARD"
    /\ "a" \in DOMAIN review_data
    /\ Outcomes(review_data["a"].review_history)
          = <<"GOOD", "GOOD", "GOOD", "GOOD", "HARD">>
    /\ review_data["a"].interval = 7

---------------------------------------------------------------------------
(* C36 *)

\* C36: in every state reached from the engine as constructed through
\* review calls, a record that is not graduated has repetition 0 and
\* interval 1 and a graduated record has repetition >= 1, so a review
\* never finds a graduated record with repetition 0 (the first branch of
\* the interval computation of _process_graduated_review).
C36_RepetitionFollowsPhase ==
    /\ [](\A c \in DOMAIN review_data :
            /\ ~review_data[c].graduated =>
                 (review_data[c].repetition = 0 /\ review_data[c].interval = 1)
            /\ review_data[c].graduated => review_data[c].repetition >= 1)
    /\ [][ (ReviewStep /\ Before.graduated) => Before.repetition # 0 ]_vars

\* the AGAIN review of a graduated card whose interval was 6 days or more
\* has put it back in the learning phase with repetition 0 and interval 1
C36_Witness ==
    /\ call.op = "review_card" /\ call.card_id = "a" /\ call.result = "AGAIN"
    /\ "a" \in DOMAIN review_data
    /\ Outcomes(review_data["a"].review_history)
          = <<"GOOD", "GOOD", "GOOD", "GOOD", "AGAIN">>
    /\ ~review_data["a"].graduated
    /\ review_data["a"].repetition = 0
    /\ review_data["a"].interval = 1


---------------------------------------------------------------------------
(* C37 *)

\* C37: with a clock that never goes back, after every review_card call the
\* next_review of the reviewed card is at least one minute later than its
\* last_review and than the time of its newest history entry, the three
\* coming from three clock reads; get_due_cards at the instant the call
\* ends does not list the card.
C37_NextReviewAfterLastReview ==
    [][ ReviewStep =>
          /\ After.next_review # None
          /\ After.last_review # None
          /\ le(plus(After.last_review[1], 0, 1), After.next_review[1])
          /\ le(plus(After.review_history[Len(After.review_history)][1], 0, 1),
                After.next_review[1])
          /\ get_due_cards(review_data', <<call'.card_id>>, now').due = <<>>
      ]_vars

\* a review of a new card whose three clock reads were a minute apart: the
\* history entry, last_review and next_review - 1 minute are three times
C37_Witness ==
    /\ call.op = "review_card" /\ call.card_id = "b" /\ call.result = "AGAIN"
    /\ "b" \in DOMAIN review_data
    /\ review_data["b"].total_reviews = 1
    /\ review_data["b"].last_review
          = Some(plus(review_data["b"].review_history[1][1], 0, 1))
    /\ review_data["b"].next_review
          = Some(plus(review_data["b"].last_review[1], 0, 2))
    /\ now = plus(review_data["b"].last_review[1], 0, 1)


---------------------------------------------------------------------------
(* C39 *)

\* C39: review_card(card_id, ...) changes only the record of card_id: the
\* record of every other card id is the same before and after the call, and
\* no record other than card_id's is created.
C39_ReviewTouchesOneRecord ==
    [][ ReviewStep =>
          /\ DOMAIN review_data' = DOMAIN review_data \cup {call'.card_id}
          /\ \A c \in DOMAIN review_data' \ {call'.card_id} :
                review_data'[c] = review_data[c] ]_vars

\* card b has been reviewed for the first time in an engine that holds the
\* record of card a after three reviews
C39_Witness ==
    /\ call.op = "review_card" /\ call.card_id = "b"
    /\ DOMAIN review_data = {"a", "b"}
    /\ review_data["b"].total_reviews = 1
    /\ review_data["a"].total_reviews = 3
    /\ review_data["a"].graduated


---------------------------------------------------------------------------
(* C38 *)

\* this step is a review_card call on the second engine
OtherReviewStep == n_calls' = n_calls + 1 /\ call'.op = "other.review_card"

\* C38: a snapshot returned by export_data is independent of the engine:
\* review_card calls on the exporting engine do not change the snapshot,
\* and once a second engine has loaded the snapshot, review_card calls on
\* either engine change no record of the other (and calls on the second do
\* not change the snapshot).  (This does not hold: the snapshot and the two
\* records hold one response_times list.)
C38_SnapshotIndependent ==
    [][ /\ ReviewStep => (snapshot' = snapshot /\ other' = other)
        /\ OtherReviewStep =>
              (snapshot' = snapshot /\ review_data' = review_data) ]_vars


---------------------------------------------------------------------------
(* C31 *)

\* the number of study calls of a list that were made with correct = True
RECURSIVE NumCorrect(_)
NumCorrect(answers) ==
    IF answers = <<>> THEN 0
    ELSE (IF answers[Len(answers)] THEN 1 ELSE 0)
            + NumCorrect(SubSeq(answers, 1, Len(answers) - 1))

\* C31: after any sequence of study(correct) calls on a new Flashcard,
\* times_studied is the number of calls and is correct_answers +
\* incorrect_answers, the two counting the calls of each kind, and accuracy
\* is 100 * correct_answers / times_studied, 0 for a card never studied.
C31_StudyCounts ==
    \A o \in Objects :
        LET m == cards[o].metadata
        IN  /\ m.times_studied = Len(studied[o])
            /\ m.times_studied = m.correct_answers + m.incorrect_answers
            /\ m.correct_answers = NumCorrect(studied[o])
            /\ accuracy(m) = IF Len(studied[o]) = 0 THEN <<0, 1>>
                             ELSE Ratio(100 * NumCorrect(studied[o]),
                                        Len(studied[o]))

\* card x has been studied three times, the second time with a wrong answer:
\* its accuracy is 200 / 3 per cent
C31_Witness ==
    /\ call.op = "study" /\ call.flashcard = "x"
    /\ studied["x"] = <<TRUE, FALSE, TRUE>>
    /\ cards["x"].metadata.times_studied = 3
    /\ cards["x"].metadata.incorrect_answers = 1
    /\ accuracy(cards["x"].metadata) = <<200, 3>>

---------------------------------------------------------------------------
(* C32 *)

\* this step is an add_flashcard call, a remove_flashcard call
AddStep == n_calls' = n_calls + 1 /\ call'.op = "add_flashcard"
RemoveStep == n_calls' = n_calls + 1 /\ call'.op = "remove_flashcard"

\* the ids of the flashcards of the set, in the order of its list
IdList == [i \in 1..Len(flashcard_set.flashcards) |->
              cards[flashcard_set.flashcards[i]].id]

\* C32: add_flashcard appends the card at the end when no card of the set
\* has its id and leaves the set as it is otherwise; the ids of the cards
\* of a set that was empty at first are pairwise distinct after any
\* add_flashcard and remove_flashcard calls; remove_flashcard returns True
\* exactly when a card with the id was in the set, and removes that card
\* and no other.
C32_SetHoldsDistinctIds ==
    /\ [](\A i, j \in 1..Len(IdList) : IdList[i] = IdList[j] => i = j)
    /\ [][ AddStep =>
             IF \E i \in 1..Len(IdList) : IdList[i] = cards[call'.flashcard].id
             THEN flashcard_set' = flashcard_set
             ELSE flashcard_set'.flashcards
                     = Append(flashcard_set.flashcards, call'.flashcard) ]_vars
    /\ [][ RemoveStep =>
             /\ removed' = Some(\E i \in 1..Len(IdList) :
                                   IdList[i] = call'.flashcard_id)
             /\ flashcard_set'.flashcards
                   = SelectSeq(flashcard_set.flashcards,
                               LAMBDA o : cards[o].id # call'.flashcard_id)
             /\ removed' = Some(FALSE) => flashcard_set' = flashcard_set
             /\ cards' = cards ]_vars

\* the set holds x and z, and the call that added y, whose id is that of x,
\* has left it so
C32_Witness ==
    /\ call.op = "add_flashcard" /\ call.flashcard = "y"
    /\ flashcard_set.flashcards = <<"x", "z">>
    /\ cards["y"].id = cards["x"].id

=====
